---- MODULE Spec2Model ----
(***************************************************************************)
(* Model of the XDF importer of sccn/xdf, Python/xdf.py: load_xdf and its  *)
(* helpers _read_varlen_int, _scan_forward, _clock_sync, _jitter_removal.  *)
(*                                                                         *)
(* The file is a sequence of bytes (0..255) and f.tell() is the number of  *)
(* bytes consumed.  Real numbers are exact rationals <<n, d>> in seconds;  *)
(* an 8-byte double on disk is modelled as the little-endian count of      *)
(* milliseconds, so that a stamp occupies its 8 bytes and short reads      *)
(* behave as in the code.  An XML blob is the byte string "<" f1 .. fn ">" *)
(* whose fields are the values the importer looks up.                      *)
(***************************************************************************)
EXTENDS Integers, Sequences, FiniteSets

\* ------------------------------------------------------------------------
\* Bounds of the model
\* ------------------------------------------------------------------------
\* number of chunks written to the file
MaxChunks == 3
\* number of bytes chopped off the end of the file
MaxCut == 4

\* ------------------------------------------------------------------------
\* Exact arithmetic standing for the float64 arithmetic of numpy
\* ------------------------------------------------------------------------
Abs(x) == IF x < 0 THEN -x ELSE x

Min(a, b) == IF a < b THEN a ELSE b

RECURSIVE Gcd(_, _)
Gcd(a, b) == IF b = 0 THEN a ELSE Gcd(b, a % b)

Reduce(n, d, g) == <<n \div g, d \div g>>

\* the rational n/d in lowest terms; d = 0 stands for +inf, -inf and nan
Rat(n, d) ==
    IF d = 0 THEN <<(IF n > 0 THEN 1 ELSE IF n < 0 THEN -1 ELSE 0), 0>>
    ELSE IF d < 0 THEN Reduce(-n, -d, Gcd(Abs(n), -d))
    ELSE Reduce(n, d, Gcd(Abs(n), d))

RInt(k) == <<k, 1>>

RAdd(x, y) == Rat(x[1] * y[2] + y[1] * x[2], x[2] * y[2])

RSub(x, y) == Rat(x[1] * y[2] - y[1] * x[2], x[2] * y[2])

RMul(x, y) == Rat(x[1] * y[1], x[2] * y[2])

\* x / y as numpy divides float64: a zero divisor yields inf or nan
RDiv(x, y) == Rat(x[1] * y[2], x[2] * y[1])

RAbs(x) == <<Abs(x[1]), x[2]>>

RLess(x, y) == x[1] * y[2] < y[1] * x[2]

RMax(x, y) == IF RLess(x, y) THEN y ELSE x

RECURSIVE RSum(_)
RSum(xs) == IF xs = <<>> THEN RInt(0) ELSE RAdd(Head(xs), RSum(Tail(xs)))

\* ------------------------------------------------------------------------
\* Program constants
\* ------------------------------------------------------------------------
jitter_break_threshold_seconds == 1
jitter_break_threshold_samples == 500
clock_reset_threshold_seconds == 5
clock_reset_threshold_stds == 5
clock_reset_threshold_offset_seconds == 1
clock_reset_threshold_offset_stds == 10
\* f.tell() < filesize-1024 decides between scanning forward and stopping
tail_margin == 1024
blocklen == 1048576

signature == <<67, 165, 70, 220, 203, 245, 65, 15,
               179, 14, 213, 70, 115, 131, 203, 228>>

\* the magic code "XDF:"
MagicCode == <<88, 68, 70, 58>>

\* channel_format as carried in the header XML of the model
fmt2name == <<"int8", "int16", "int32", "int64", "float32", "double64", "string">>

fmt2nbytes == [int8 |-> 1, int16 |-> 2, int32 |-> 4, int64 |-> 8,
               float32 |-> 4, double64 |-> 8]

\* ------------------------------------------------------------------------
\* Primitive reader: f.read and struct.unpack on the byte sequence B
\* ------------------------------------------------------------------------
\* f.read(n) at offset p: at most n bytes, fewer at end of file; a negative
\* n reads up to end of file
read(B, p, n) ==
    IF n < 0 THEN SubSeq(B, p + 1, Len(B))
    ELSE SubSeq(B, p + 1, Min(p + n, Len(B)))

\* little-endian unsigned integer of a byte string (struct 'B', '<H', '<I', '<Q')
RECURSIVE unpack_uint(_)
unpack_uint(b) == IF b = <<>> THEN 0 ELSE Head(b) + 256 * unpack_uint(Tail(b))

\* struct '<d': the double, in seconds
unpack_double(b) == Rat(unpack_uint(b), 1000)

\* two's complement of a w-byte value, for the integer formats of 1 and 2 bytes
signed(v, w) ==
    IF w = 1 /\ v > 127 THEN v - 256
    ELSE IF w = 2 /\ v > 32767 THEN v - 65536 ELSE v

\* struct.unpack(structfmt, raw) on the bytes of one sample: a value per channel
unpack_row(raw, nchns, w) ==
    [c \in 1..nchns |-> signed(unpack_uint(SubSeq(raw, (c - 1) * w + 1, c * w)), w)]

\* bytes.decode(errors='replace') on single-byte code points
decode(raw) == [i \in 1..Len(raw) |-> IF raw[i] < 128 THEN raw[i] ELSE 65533]

varlen_fail(p, e) == [ok |-> FALSE, val |-> 0, pos |-> p, err |-> e]

\* the second read of _read_varlen_int: w bytes asked at offset p, d obtained
varlen_value(p, w, d) ==
    IF Len(d) < w THEN varlen_fail(p + Len(d), "struct.error")
    ELSE [ok |-> TRUE, val |-> unpack_uint(d), pos |-> p + w, err |-> "none"]

\* the first read of _read_varlen_int: h is f.read(1) at offset p
varlen_nbytes(B, p, h) ==
    IF Len(h) < 1 THEN varlen_fail(p, "struct.error")
    ELSE IF h[1] \notin {1, 4, 8} THEN varlen_fail(p + 1, "RuntimeError")
    ELSE varlen_value(p + 1, h[1], read(B, p + 1, h[1]))

\* _read_varlen_int(f) at offset p: [ok, val, pos, err]
read_varlen_int(B, p) == varlen_nbytes(B, p, read(B, p, 1))

\* ------------------------------------------------------------------------
\* XML collaborator: ET.fromstring followed by _xml2dict
\* ------------------------------------------------------------------------
\* a blob parses when it is "<" .. ">" with nfields bytes in between
xml_ok(blob, nfields) ==
    /\ Len(blob) = nfields + 2
    /\ blob[1] = 60
    /\ blob[Len(blob)] = 62

xml_fields(blob) == SubSeq(blob, 2, Len(blob) - 1)

\* ------------------------------------------------------------------------
\* Boundary scanner
\* ------------------------------------------------------------------------
least(S) == IF S = {} THEN -1 ELSE CHOOSE i \in S : \A j \in S : i <= j

\* bytes.find: the least 0-based offset of sig in block, or -1
find(block, sig) ==
    least({i \in 0..(Len(block) - Len(sig)) :
              SubSeq(block, i + 1, i + Len(sig)) = sig})

\* _scan_forward(f) started at offset p: the offset it leaves the reader at,
\* and the absolute offset of the match (-1 when end of file is reached)
RECURSIVE scan_forward(_, _)
\* f.seek(matchpos + 15): the offset in the block taken for one in the file
scan_block_relative(B, curpos, len, matchpos) ==
    IF matchpos # -1
    THEN [pos |-> matchpos + 15, match |-> curpos + matchpos]
    ELSE IF len < blocklen
    THEN [pos |-> curpos + len, match |-> -1]
    ELSE scan_forward(B, curpos + len)

scan_block(B, curpos, len, matchpos) ==
    IF matchpos # -1
    THEN [pos |-> curpos + matchpos + 15, match |-> curpos + matchpos]
    ELSE IF len < blocklen
    THEN [pos |-> curpos + len, match |-> -1]
    ELSE scan_forward(B, curpos + len)

scan_forward(B, p) ==
    scan_block(B, p, Len(read(B, p, blocklen)),
               find(read(B, p, blocklen), signature))

\* ------------------------------------------------------------------------
\* The files of the model: what a recorder writes, chunk by chunk
\* ------------------------------------------------------------------------
RECURSIVE pack_uint(_, _)
pack_uint(v, w) == IF w = 0 THEN <<>> ELSE <<v % 256>> \o pack_uint(v \div 256, w - 1)

\* [NumLengthBytes][Length]
pack_varlen(v) == IF v < 256 THEN <<1, v>> ELSE <<4>> \o pack_uint(v, 4)

\* [NumLengthBytes][Length][Tag][Content]; the length counts tag and content
pack_chunk(tag, content) ==
    pack_varlen(Len(content) + 2) \o pack_uint(tag, 2) \o content

\* one sample record: [has_stamp][stamp in ms]?[values]
pack_sample(ms, vals) ==
    (IF ms >= 0 THEN <<1>> \o pack_uint(ms, 8) ELSE <<0>>) \o vals

RECURSIVE flatten(_)
flatten(chunks) ==
    IF chunks = <<>> THEN <<>> ELSE Head(chunks) \o flatten(Tail(chunks))

pack_samples(sid, recs) ==
    pack_chunk(3, pack_uint(sid, 4) \o pack_varlen(Len(recs)) \o flatten(recs))

\* the sample records of the Samples chunks of the model
Records ==
    [ \* stream 1: a stamped sample at 30.000 s and a deduced one
      smA |-> << pack_sample(30000, <<5, 250>>), pack_sample(-1, <<6, 7>>) >>,
      \* stream 1: one deduced sample
      smB |-> << pack_sample(-1, <<8, 9>>) >>,
      \* stream 2: a stamped marker at 1.500 s and a deduced one
      smS |-> << pack_sample(1500, <<1, 2, 97, 98>>),
                 pack_sample(-1, <<1, 1, 99>>) >> ]

\* the stream id the chunks of the model carry
StreamOf == [sh1 |-> 1, sh2 |-> 2, smA |-> 1, smB |-> 1, smS |-> 2,
             smP |-> 1, co1 |-> 1, ft1 |-> 1]

\* the chunks a file of the model is made of
Chunks ==
    [ fh   |-> pack_chunk(1, <<60, 1, 62>>),
      \* stream 1: int8, 2 channels, 50 Hz
      sh1  |-> pack_chunk(2, pack_uint(StreamOf.sh1, 4) \o <<60, 1, 2, 50, 62>>),
      \* stream 2: string, 1 channel, irregular
      sh2  |-> pack_chunk(2, pack_uint(StreamOf.sh2, 4) \o <<60, 7, 1, 0, 62>>),
      smA  |-> pack_samples(StreamOf.smA, Records.smA),
      smB  |-> pack_samples(StreamOf.smB, Records.smB),
      smS  |-> pack_samples(StreamOf.smS, Records.smS),
      \* stream 1: smB followed by one byte the declared length also counts
      smP  |-> pack_chunk(3, pack_uint(StreamOf.smP, 4) \o pack_varlen(1)
                             \o pack_sample(-1, <<8, 9>>) \o <<0>>),
      \* stream 1: offset 0.500 s measured at 2.000 s
      co1  |-> pack_chunk(4, pack_uint(StreamOf.co1, 4) \o pack_uint(2000, 8)
                             \o pack_uint(500, 8)),
      ft1  |-> pack_chunk(6, pack_uint(StreamOf.ft1, 4) \o <<60, 3, 62>>),
      bd   |-> pack_chunk(5, signature),
      big  |-> pack_chunk(7, [i \in 1..(tail_margin + 8) |-> 0]) ]

Menu == DOMAIN Chunks

RECURSIVE Concat(_)
Concat(names) ==
    IF names = <<>> THEN <<>> ELSE Chunks[Head(names)] \o Concat(Tail(names))

\* the bytes of the file: magic, chunks, with the last cut bytes missing
chop(all, cut) == SubSeq(all, 1, Len(all) - Min(cut, Len(all)))

FileBytes(magic, names, cut) == chop(magic \o Concat(names), cut)

Magics == {MagicCode, <<88, 68, 70, 46>>}

extend(shorter, S) == shorter \cup {Append(q, x) : q \in shorter, x \in S}

RECURSIVE SeqsUpTo(_, _)
SeqsUpTo(S, n) == IF n = 0 THEN {<<>>} ELSE extend(SeqsUpTo(S, n - 1), S)

\* ------------------------------------------------------------------------
\* Per-stream temporary data
\* ------------------------------------------------------------------------
\* an attribute that has not been set
Unset == <<>>

\* StreamData.__init__ on the header fields <<format code, channels, srate>>;
\* effective_srate is the attribute the later passes set
StreamData(xml) ==
    [ nchns |-> xml[2],
      srate |-> xml[3],
      fmt |-> fmt2name[xml[1]],
      time_stamps |-> <<>>,
      time_series |-> <<>>,
      clock_times |-> <<>>,
      clock_values |-> <<>>,
      last_timestamp |-> RInt(0),
      tdiff |-> IF xml[3] > 0 THEN Rat(1, xml[3]) ELSE RInt(0),
      effective_srate |-> Unset ]

\* a channel_format that is neither 'string' nor a key of fmt2nbytes
StreamDataRaises(xml) == xml[1] \notin DOMAIN fmt2name

samplebytes(sd) == sd.nchns * fmt2nbytes[sd.fmt]

\* ------------------------------------------------------------------------
\* Sample decoder: the body of the try block of a Samples chunk
\* ------------------------------------------------------------------------
sample_fail(p, last) ==
    [ok |-> FALSE, pos |-> p, last |-> last, row |-> <<>>, flag |-> FALSE]

\* the values of a numeric sample: raw is f.read(samplebytes) at offset p
numeric_row(p, sd, stamp, has, raw) ==
    IF Len(raw) < samplebytes(sd) THEN sample_fail(p + Len(raw), stamp)
    ELSE [ok |-> TRUE, pos |-> p + Len(raw), last |-> stamp,
          row |-> unpack_row(raw, sd.nchns, fmt2nbytes[sd.fmt]), flag |-> has]

\* the values of a string sample read from offset p, channel by channel
RECURSIVE read_strings(_, _, _, _, _, _)
string_value(B, stamp, has, nleft, acc, n, raw) ==
    IF ~n.ok THEN sample_fail(n.pos, stamp)
    ELSE read_strings(B, n.pos + Len(raw), stamp, has, nleft - 1,
                      Append(acc, decode(raw)))

string_length(B, stamp, has, nleft, acc, n) ==
    string_value(B, stamp, has, nleft, acc, n, read(B, n.pos, n.val))

read_strings(B, p, stamp, has, nleft, acc) ==
    IF nleft = 0
    THEN [ok |-> TRUE, pos |-> p, last |-> stamp, row |-> acc, flag |-> has]
    ELSE string_length(B, stamp, has, nleft, acc, read_varlen_int(B, p))

\* read the values: stamp is the time stamp read or deduced
read_values(B, p, sd, stamp, has) ==
    IF sd.fmt = "string" THEN read_strings(B, p, stamp, has, sd.nchns, <<>>)
    ELSE numeric_row(p, sd, stamp, has, read(B, p, samplebytes(sd)))

\* read or deduce the time stamp: sb is f.read(8) when the flag is set
read_stamp(B, p, sd, last, has, sb) ==
    IF has /\ Len(sb) < 8 THEN sample_fail(p + Len(sb), last)
    ELSE read_values(B, p + Len(sb), sd,
                     IF has THEN unpack_double(sb) ELSE RAdd(last, sd.tdiff),
                     has)

\* flag is f.read(1) at offset p
read_flag(B, p, sd, last, flag) ==
    IF Len(flag) < 1 THEN sample_fail(p, last)
    ELSE read_stamp(B, p + 1, sd, last, flag[1] # 0,
                    IF flag[1] # 0 THEN read(B, p + 1, 8) ELSE <<>>)

\* one iteration of "for k in range(nsamples)" at offset p:
\* [ok, pos, last, row, flag], last being temp[s].last_timestamp afterwards
read_sample(B, p, sd, last) == read_flag(B, p, sd, last, read(B, p, 1))

\* samples k+1 .. nsamples read from offset p
RECURSIVE read_samples(_, _, _, _, _, _, _, _, _)
next_sample(B, sd, nsamples, k, stamps, values, flags, one) ==
    IF ~one.ok
    THEN [ok |-> FALSE, pos |-> one.pos, last |-> one.last, stamps |-> stamps,
          values |-> values, flags |-> flags]
    ELSE read_samples(B, one.pos, sd, nsamples, k + 1, one.last,
                      Append(stamps, one.last), Append(values, one.row),
                      Append(flags, one.flag))

read_samples(B, p, sd, nsamples, k, last, stamps, values, flags) ==
    IF k = nsamples
    THEN [ok |-> TRUE, pos |-> p, last |-> last, stamps |-> stamps,
          values |-> values, flags |-> flags]
    ELSE next_sample(B, sd, nsamples, k, stamps, values, flags,
                     read_sample(B, p, sd, last))

chunk_fail(p, s, known, last) ==
    [ok |-> FALSE, s |-> s, known |-> known, pos |-> p, last |-> last,
     stamps |-> <<>>, values |-> <<>>, flags |-> <<>>]

\* the samples of the chunk, for the stream s of temp
chunk_samples(s, r) ==
    [ok |-> r.ok, s |-> s, known |-> TRUE, pos |-> r.pos, last |-> r.last,
     stamps |-> r.stamps, values |-> r.values, flags |-> r.flags]

\* [NumSampleBytes], [NumSamples] read as n; temp[s] raises KeyError when s
\* is not a key of temp
chunk_nsamples(B, tmp, s, n) ==
    IF ~n.ok THEN chunk_fail(n.pos, s, FALSE, RInt(0))
    ELSE IF s \notin DOMAIN tmp THEN chunk_fail(n.pos, s, FALSE, RInt(0))
    ELSE chunk_samples(s, read_samples(B, n.pos, tmp[s], n.val, 0,
                                       tmp[s].last_timestamp, <<>>, <<>>, <<>>))

\* [StreamId] read as sb at offset p
chunk_stream(B, p, tmp, sb) ==
    IF Len(sb) < 4 THEN chunk_fail(p + Len(sb), 0, FALSE, RInt(0))
    ELSE chunk_nsamples(B, tmp, unpack_uint(sb), read_varlen_int(B, p + 4))

\* the try block of the Samples handler entered at offset p (after the tag):
\* [ok, s, known, pos, last, stamps, values, flags]
read_samples_chunk(B, p, tmp) == chunk_stream(B, p, tmp, read(B, p, 4))

\* ------------------------------------------------------------------------
\* numpy helpers on sequences of rationals
\* ------------------------------------------------------------------------
\* np.diff
diff(x) == [i \in 1..(Len(x) - 1) |-> RSub(x[i + 1], x[i])]

RECURSIVE insert(_, _)
insert(x, sorted) ==
    IF sorted = <<>> THEN <<x>>
    ELSE IF RLess(Head(sorted), x) THEN <<Head(sorted)>> \o insert(x, Tail(sorted))
    ELSE <<x>> \o sorted

RECURSIVE sort(_)
sort(x) == IF x = <<>> THEN <<>> ELSE insert(Head(x), sort(Tail(x)))

middle(y, n) ==
    IF n % 2 = 1 THEN y[(n + 1) \div 2]
    ELSE RDiv(RAdd(y[n \div 2], y[n \div 2 + 1]), RInt(2))

\* np.median of a non-empty array
median(x) == middle(sort(x), Len(x))

\* np.where(mask)[0] from position i on: 0-based indices, ascending
RECURSIVE where(_, _)
where(mask, i) ==
    IF i > Len(mask) THEN <<>>
    ELSE (IF mask[i] THEN <<i - 1>> ELSE <<>>) \o where(mask, i + 1)

\* np.reshape(flat, (2, -1)).T: row j pairs flat[j] with flat[k + j]
pair_up(flat, k) == [j \in 1..k |-> <<flat[j], flat[k + j]>>]

\* np.reshape(np.hstack((0, indices, indices+1, last)), (2, -1)).T
index_ranges(indices, last) ==
    pair_up(<<0>> \o indices \o [j \in 1..Len(indices) |-> indices[j] + 1]
            \o <<last>>, Len(indices) + 1)

\* x[b:e] of Python, 0 <= b: the 1-based positions the slice selects
slice_positions(n, b, e) == {i \in 1..n : b < i /\ i <= e}

\* ------------------------------------------------------------------------
\* _robust_fit
\* ------------------------------------------------------------------------
\* np.linalg.cholesky(A'A) fails on a design matrix [1, t] of rank < 2
robust_fit_raises(t) == Cardinality({t[i] : i \in 1..Len(t)}) < 2

on_line(t, v, a, b) == \A j \in 1..Len(t) : RAdd(a, RMul(b, t[j])) = v[j]

line_through(t, v, i, b) == <<RSub(v[1], RMul(b, t[1])), b>>

slope_to(t, v, i) == RDiv(RSub(v[i], v[1]), RSub(t[i], t[1]))

\* the pair <<a, b>> returned for points (t, v) lying on one line: the first
\* solve yields the least-squares line, for which d = 0, z = 0 and u = 0, so
\* that every later iteration returns it again
robust_fit(t, v) ==
    CHOOSE x \in {line_through(t, v, i, slope_to(t, v, i)) :
                    i \in {k \in 1..Len(t) : t[k] # t[1]}} :
        on_line(t, v, x[1], x[2])

\* ------------------------------------------------------------------------
\* _clock_sync, for one stream
\* ------------------------------------------------------------------------
\* cond1 | (cond2 & cond3) for the difference d; the machine epsilon added to
\* mad is below the resolution of the model
is_glitch(d, med, mad, threshold_stds, threshold_seconds) ==
    \/ RLess(d, RInt(0))
    \/ /\ RLess(RMul(RInt(threshold_stds), mad), RSub(d, med))
       /\ RLess(RInt(threshold_seconds), RSub(d, med))

glitch_at(x, med, threshold_stds, threshold_seconds) ==
    [i \in 1..Len(x) |->
        is_glitch(x[i], med,
                  median([j \in 1..Len(x) |-> RAbs(RSub(x[j], med))]),
                  threshold_stds, threshold_seconds)]

glitch(x, threshold_stds, threshold_seconds) ==
    glitch_at(x, median(x), threshold_stds, threshold_seconds)

\* resets_at = time_glitch & value_glitch
resets(time_glitch, value_glitch) ==
    [i \in 1..Len(time_glitch) |-> time_glitch[i] /\ value_glitch[i]]

ranges_of(resets_at, n) ==
    IF \A i \in 1..Len(resets_at) : ~resets_at[i] THEN << <<0, n - 1>> >>
    ELSE index_ranges(where(resets_at, 1), Len(resets_at) - 1)

\* resets_at for at least two clock offsets
clock_resets(clock_times, clock_values) ==
    resets(glitch(diff(clock_times),
                  clock_reset_threshold_stds,
                  clock_reset_threshold_seconds),
           glitch([i \in 1..(Len(clock_values) - 1) |->
                      RAbs(diff(clock_values)[i])],
                  clock_reset_threshold_offset_stds,
                  clock_reset_threshold_offset_seconds))

\* the [begin, end] index ranges between resets; the differences of fewer
\* than two measurements are empty and show no reset
clock_ranges(clock_times, clock_values, handle_clock_resets) ==
    IF handle_clock_resets /\ Len(clock_times) >= 2
    THEN ranges_of(clock_resets(clock_times, clock_values), Len(clock_times))
    ELSE << <<0, Len(clock_times) - 1>> >>

\* x[b:e+1] for the range r = <<b, e>>
range_of(x, r) == SubSeq(x, r[1] + 1, Min(r[2] + 1, Len(x)))

\* the coefficients of one range
clock_coef(sd, r) ==
    IF r[1] # r[2]
    THEN robust_fit(range_of(sd.clock_times, r), range_of(sd.clock_values, r))
    ELSE <<sd.clock_values[r[1] + 1], RInt(0)>>

\* time_stamps[sel] += a + b*time_stamps[sel]
correct(ts, sel, coef) ==
    [i \in 1..Len(ts) |->
        IF i \in sel THEN RAdd(ts[i], RAdd(coef[1], RMul(coef[2], ts[i])))
        ELSE ts[i]]

\* for coef_i, range_i in zip(coef, ranges), from range j on
RECURSIVE correct_ranges(_, _, _, _)
correct_ranges(sd, ts, ranges, j) ==
    IF j > Len(ranges) THEN ts
    ELSE correct_ranges(sd,
             correct(ts, slice_positions(Len(ts), ranges[j][1], ranges[j][2]),
                     clock_coef(sd, ranges[j])),
             ranges, j + 1)

\* the stream with its ranges: the fit of a range may raise LinAlgError
sync_ranges(sd, ranges) ==
    IF \E j \in 1..Len(ranges) :
          /\ ranges[j][1] # ranges[j][2]
          /\ robust_fit_raises(range_of(sd.clock_times, ranges[j]))
    THEN [raises |-> "LinAlgError", sd |-> sd]
    ELSE [raises |-> "none",
          sd |-> [sd EXCEPT !.time_stamps =
                     IF Len(ranges) = 1
                     THEN correct(sd.time_stamps, 1..Len(sd.time_stamps),
                                  clock_coef(sd, ranges[1]))
                     ELSE correct_ranges(sd, sd.time_stamps, ranges, 1)]]

clock_sync(sd, handle_clock_resets) ==
    IF Len(sd.time_stamps) > 0
    THEN sync_ranges(sd, clock_ranges(sd.clock_times, sd.clock_values,
                                      handle_clock_resets))
    ELSE [raises |-> "none", sd |-> sd]

\* ------------------------------------------------------------------------
\* Concatenation of the signal across chunks, for one stream
\* ------------------------------------------------------------------------
\* a numeric array is the sequence of its rows, so np.zeros((r, 0)) is r
\* empty rows
concatenate(sd) ==
    IF sd.time_stamps # <<>>
    THEN [sd EXCEPT !.time_stamps = flatten(sd.time_stamps),
                    !.time_series = flatten(sd.time_series)]
    ELSE [sd EXCEPT !.time_stamps = <<>>,
                    !.time_series = IF sd.fmt = "string" THEN <<>>
                                    ELSE [c \in 1..sd.nchns |-> <<>>]]

\* ------------------------------------------------------------------------
\* _jitter_removal, for one stream
\* ------------------------------------------------------------------------
line_at(icept, slope, b, n) ==
    [i \in 1..n |-> RAdd(icept, RMul(slope, RInt(b + i - 1)))]

line_of(Si, Sy, slope, b, n) ==
    line_at(RDiv(RSub(Sy, RMul(slope, Si)), RInt(n)), slope, b, n)

normal_equations(n, Si, Sii, Sy, Siy, b) ==
    line_of(Si, Sy,
            RDiv(RSub(RMul(RInt(n), Siy), RMul(Si, Sy)),
                 RSub(RMul(RInt(n), Sii), RMul(Si, Si))),
            b, n)

\* np.linalg.lstsq of y against [1, index] for index = b..b+Len(y)-1, then
\* mapping[0] + mapping[1]*indices
fitted_line(y, b) ==
    normal_equations(Len(y),
        RSum([i \in 1..Len(y) |-> RInt(b + i - 1)]),
        RSum([i \in 1..Len(y) |-> RInt((b + i - 1) * (b + i - 1))]),
        RSum(y),
        RSum([i \in 1..Len(y) |-> RMul(RInt(b + i - 1), y[i])]),
        b)

\* np.sum(effective_srate/num_samples/np.sum(num_samples))
aggregate_srate(effective_srate, num_samples) ==
    RSum([i \in 1..Len(effective_srate) |->
             RDiv(RDiv(effective_srate[i], RInt(num_samples[i])),
                  RSum([j \in 1..Len(num_samples) |-> RInt(num_samples[j])]))])

breaks(diffs, threshold) == [i \in 1..Len(diffs) |-> RLess(threshold, diffs[i])]

break_ranges(breaks_at, nsamples) ==
    IF \E i \in 1..Len(breaks_at) : breaks_at[i]
    THEN index_ranges(where(breaks_at, 1), nsamples - 1)
    ELSE << <<0, nsamples - 1>> >>

jitter_ranges(time_stamps, tdiff) ==
    break_ranges(breaks(diff(time_stamps),
                        RMax(RInt(jitter_break_threshold_seconds),
                             RMul(RInt(jitter_break_threshold_samples), tdiff))),
                 Len(time_stamps))

\* the loop over the segments, from segment j on; arrays tells that
\* num_samples and effective_srate have been rebound to ndarrays, which have
\* no append
RECURSIVE jitter_segments(_, _, _, _, _, _)
segment(sd, ranges, j, b, e, num_samples, effective_srate) ==
    jitter_segments(
        [sd EXCEPT !.time_stamps = fitted_line(SubSeq(sd.time_stamps, b + 1, e + 1), b),
                   !.effective_srate = aggregate_srate(effective_srate, num_samples)],
        ranges, j + 1, num_samples, effective_srate, TRUE)

jitter_segments(sd, ranges, j, num_samples, effective_srate, arrays) ==
    IF j > Len(ranges) THEN [raises |-> "none", sd |-> sd]
    ELSE IF ~(ranges[j][2] > ranges[j][1])
    THEN jitter_segments(sd, ranges, j + 1, num_samples, effective_srate, arrays)
    ELSE IF arrays THEN [raises |-> "AttributeError", sd |-> sd]
    ELSE IF ranges[j][2] + 1 > Len(sd.time_stamps)
    THEN [raises |-> "IndexError", sd |-> sd]
    ELSE segment(sd, ranges, j, ranges[j][1], ranges[j][2],
                 Append(num_samples, ranges[j][2] - ranges[j][1] + 1),
                 Append(effective_srate,
                        RDiv(RInt(ranges[j][2] - ranges[j][1] + 1),
                             RSub(sd.time_stamps[ranges[j][2] + 1],
                                  sd.time_stamps[ranges[j][1] + 1]))))

jitter_removal(sd) ==
    IF Len(sd.time_stamps) > 0 /\ sd.srate > 0
    THEN jitter_segments(sd, jitter_ranges(sd.time_stamps, sd.tdiff), 1,
                         <<>>, <<>>, FALSE)
    ELSE [raises |-> "none", sd |-> [sd EXCEPT !.effective_srate = RInt(0)]]

\* the else branch of dejitter_timestamps
naive_srate(sd) ==
    IF Len(sd.time_stamps) = 0 THEN [raises |-> "IndexError", sd |-> sd]
    ELSE [raises |-> "none",
          sd |-> [sd EXCEPT !.effective_srate =
                     RDiv(RInt(Len(sd.time_stamps)),
                          RSub(sd.time_stamps[Len(sd.time_stamps)],
                               sd.time_stamps[1]))]]

\* ------------------------------------------------------------------------
\* State of one call of load_xdf
\* ------------------------------------------------------------------------
VARIABLES
    exists,      \* os.path.exists(filename)
    file,        \* the bytes of the file
    layout,      \* what was written to it: [magic, names, cut]
    options,     \* synchronize_clocks, handle_clock_resets, dejitter_timestamps:
                 \* an option is drawn when load_xdf first reads it
    pc,          \* "start", "loop", "concat", "sync", "dejitter", "finish",
                 \* "done", "raised"
    fopen,       \* the file object f is open
    pos,         \* f.tell()
    streams,     \* the keys of the OrderedDict streams, in order of appearance
    info,        \* streams[s]: [info, footer]
    temp,        \* the dict temp: stream id -> StreamData
    fileheader,  \* "None" or the FileHeader fields
    chunk,       \* the last loop iteration: [at, body, chunklen, tag, outcome]
    scan,        \* the _scan_forward call of the last loop iteration, if any
    has_stamp,   \* stream id -> the has_stamp flags of the buffered samples
    err,         \* the exception load_xdf raised
    result       \* the value load_xdf returned

vars == <<pc, exists, file, layout, options, fopen, pos, streams, info, temp,
          fileheader, chunk, scan, has_stamp, err, result>>

filesize == Len(file)

NoChunk == [at |-> -1, body |-> -1, chunklen |-> -1, tag |-> -1,
            outcome |-> "none"]

NoScan == [from |-> -1, pos |-> -1, match |-> -1]

\* what follows a magic code other than "XDF:" is at most one chunk
Layouts ==
    {[magic |-> MagicCode, names |-> names, cut |-> cut] :
        names \in SeqsUpTo(Menu, MaxChunks), cut \in 0..MaxCut}
    \cup {[magic |-> magic, names |-> names, cut |-> cut] :
        magic \in Magics \ {MagicCode}, names \in SeqsUpTo(Menu, 1),
        cut \in 0..MaxCut}

Init ==
    /\ \/ /\ exists = TRUE
          /\ layout \in Layouts
          /\ file = FileBytes(layout.magic, layout.names, layout.cut)
       \/ /\ exists = FALSE
          /\ layout = [magic |-> <<>>, names |-> <<>>, cut |-> 0]
          /\ file = <<>>
    /\ options = <<>>
    /\ pc = "start"
    /\ fopen = FALSE
    /\ pos = 0
    /\ streams = <<>>
    /\ info = <<>>
    /\ temp = <<>>
    /\ fileheader = "None"
    /\ chunk = NoChunk
    /\ scan = NoScan
    /\ has_stamp = <<>>
    /\ err = "none"
    /\ result = "none"

\* an exception leaves load_xdf; the with block closes f
Raise(e) ==
    /\ pc' = "raised"
    /\ err' = e
    /\ fopen' = FALSE
    /\ UNCHANGED <<exists, file, layout, options, result>>

\* d[k] = v on a dict d
put(d, k, v) == [x \in (DOMAIN d) \cup {k} |-> IF x = k THEN v ELSE d[x]]

\* ------------------------------------------------------------------------
\* Opening the file
\* ------------------------------------------------------------------------
\* the comparison of the first three bytes only
magic_ok_prefix(bytes) == SubSeq(bytes, 1, 3) = SubSeq(MagicCode, 1, 3)

magic_ok(bytes) == bytes = MagicCode

FileMissing ==
    /\ pc = "start"
    /\ ~exists
    /\ Raise("Exception: does not exist")
    /\ UNCHANGED <<pos, streams, info, temp, fileheader, chunk, scan, has_stamp>>

BadMagic ==
    /\ pc = "start"
    /\ exists
    /\ ~magic_ok(read(file, 0, 4))
    /\ Raise("Exception: not a valid XDF file")
    /\ pos' = Len(read(file, 0, 4))
    /\ UNCHANGED <<streams, info, temp, fileheader, chunk, scan, has_stamp>>

ReadMagic ==
    /\ pc = "start"
    /\ exists
    /\ magic_ok(read(file, 0, 4))
    /\ pc' = "loop"
    /\ fopen' = TRUE
    /\ pos' = 4
    /\ UNCHANGED <<exists, file, layout, options, streams, info, temp,
                   fileheader, chunk, scan, has_stamp, err, result>>

\* ------------------------------------------------------------------------
\* The chunk loop: one action per outcome of an iteration
\* ------------------------------------------------------------------------
\* [NumLengthBytes], [Length] read at the current offset
chunklen == read_varlen_int(file, pos)

\* [Tag]
tagbytes == read(file, chunklen.pos, 2)

\* the offset after the tag
body == chunklen.pos + 2

\* the iteration reached the dispatch on the tag t
Dispatch(t) ==
    /\ pc = "loop"
    /\ chunklen.ok
    /\ Len(tagbytes) = 2
    /\ unpack_uint(tagbytes) = t

seen(len, tb, outcome) ==
    [at |-> pos, body |-> len.pos, chunklen |-> len.val,
     tag |-> IF len.ok /\ Len(tb) = 2 THEN unpack_uint(tb) ELSE -1,
     outcome |-> outcome]

Seen(outcome) == seen(chunklen, tagbytes, outcome)

\* the iteration goes on to the next one at offset p
Continue(p) ==
    /\ pc' = "loop"
    /\ pos' = p
    /\ chunk' = Seen("ok")
    /\ scan' = NoScan
    /\ UNCHANGED <<exists, file, layout, options, fopen, err, result>>

\* the handler raises at offset p
HandlerRaises(e, p) ==
    /\ Raise(e)
    /\ pos' = p
    /\ chunk' = Seen("raised")
    /\ scan' = NoScan

\* _scan_forward(f) called at offset p
ScanFrom(p, sc) ==
    /\ pos' = sc.pos
    /\ scan' = [from |-> p, pos |-> sc.pos, match |-> sc.match]

\* the length cannot be read and the end of the file is far: scan forward
LengthScan ==
    /\ pc = "loop"
    /\ ~chunklen.ok
    /\ chunklen.pos < filesize - tail_margin
    /\ ScanFrom(chunklen.pos, scan_forward(file, chunklen.pos))
    /\ chunk' = Seen("scanned")
    /\ UNCHANGED <<exists, file, layout, options, pc, fopen, streams, info,
                   temp, fileheader, has_stamp, err, result>>

\* the length cannot be read near the end of the file: leave the loop
LengthBreak ==
    /\ pc = "loop"
    /\ ~chunklen.ok
    /\ ~(chunklen.pos < filesize - tail_margin)
    /\ pc' = "concat"
    /\ fopen' = FALSE
    /\ pos' = chunklen.pos
    /\ chunk' = Seen("break")
    /\ scan' = NoScan
    /\ UNCHANGED <<exists, file, layout, options, streams, info, temp,
                   fileheader, has_stamp, err, result>>

\* struct.unpack('<H', f.read(2)) on fewer than two bytes
TagRaises ==
    /\ pc = "loop"
    /\ chunklen.ok
    /\ Len(tagbytes) < 2
    /\ HandlerRaises("struct.error", chunklen.pos + Len(tagbytes))
    /\ UNCHANGED <<streams, info, temp, fileheader, has_stamp>>

file_header(xml_string) ==
    IF xml_ok(xml_string, 1)
    THEN /\ fileheader' = xml_fields(xml_string)
         /\ Continue(body + Len(xml_string))
    ELSE /\ HandlerRaises("ParseError", body + Len(xml_string))
         /\ UNCHANGED fileheader

FileHeaderChunk ==
    /\ Dispatch(1)
    /\ file_header(read(file, body, chunklen.val - 2))
    /\ UNCHANGED <<streams, info, temp, has_stamp>>

\* a header of a stream that has a buffer leaves the buffer as it is
stream_header_once(sb, s, xml_string) ==
    IF Len(sb) = 4 /\ xml_ok(xml_string, 3)
       /\ ~StreamDataRaises(xml_fields(xml_string))
    THEN /\ streams' = IF s \in DOMAIN info THEN streams ELSE Append(streams, s)
         /\ info' = put(info, s, [info |-> xml_fields(xml_string),
                                  footer |-> "none"])
         /\ temp' = IF s \in DOMAIN temp THEN temp
                    ELSE put(temp, s, StreamData(xml_fields(xml_string)))
         /\ has_stamp' = IF s \in DOMAIN has_stamp THEN has_stamp
                         ELSE put(has_stamp, s, <<>>)
         /\ Continue(body + 4 + Len(xml_string))
    ELSE /\ HandlerRaises(IF Len(sb) < 4 THEN "struct.error"
                          ELSE IF ~xml_ok(xml_string, 3) THEN "ParseError"
                          ELSE "KeyError",
                          body + Len(sb) + Len(xml_string))
         /\ UNCHANGED <<streams, info, temp, has_stamp>>

stream_header(sb, s, xml_string) ==
    IF Len(sb) = 4 /\ xml_ok(xml_string, 3)
       /\ ~StreamDataRaises(xml_fields(xml_string))
    THEN /\ streams' = IF s \in DOMAIN info THEN streams ELSE Append(streams, s)
         /\ info' = put(info, s, [info |-> xml_fields(xml_string),
                                  footer |-> "none"])
         /\ temp' = put(temp, s, StreamData(xml_fields(xml_string)))
         /\ has_stamp' = put(has_stamp, s, <<>>)
         /\ Continue(body + 4 + Len(xml_string))
    ELSE /\ HandlerRaises(IF Len(sb) < 4 THEN "struct.error"
                          ELSE IF ~xml_ok(xml_string, 3) THEN "ParseError"
                          ELSE "KeyError",
                          body + Len(sb) + Len(xml_string))
         /\ UNCHANGED <<streams, info, temp, has_stamp>>

StreamHeaderChunk ==
    /\ Dispatch(2)
    /\ stream_header(read(file, body, 4), unpack_uint(read(file, body, 4)),
                     read(file, body + 4, chunklen.val - 6))
    /\ UNCHANGED fileheader

\* the chunk is appended, the last time stamp being kept for the chunk only
samples_appended_local(r) ==
    /\ r.ok
    /\ temp' = [temp EXCEPT
           ![r.s].time_series = Append(temp[r.s].time_series, r.values),
           ![r.s].time_stamps = Append(temp[r.s].time_stamps, r.stamps)]
    /\ has_stamp' = [has_stamp EXCEPT ![r.s] = has_stamp[r.s] \o r.flags]
    /\ Continue(r.pos)

\* the chunk was decoded to its end: it is appended to the buffers
samples_appended(r) ==
    /\ r.ok
    /\ temp' = [temp EXCEPT
           ![r.s].last_timestamp = r.last,
           ![r.s].time_series = Append(temp[r.s].time_series, r.values),
           ![r.s].time_stamps = Append(temp[r.s].time_stamps, r.stamps)]
    /\ has_stamp' = [has_stamp EXCEPT ![r.s] = has_stamp[r.s] \o r.flags]
    /\ Continue(r.pos)

SamplesChunk ==
    /\ Dispatch(3)
    /\ samples_appended(read_samples_chunk(file, body, temp))
    /\ UNCHANGED <<streams, info, fileheader>>

\* an exception inside the try block: scan forward
samples_failed(r) ==
    /\ ~r.ok
    /\ temp' = IF r.known THEN [temp EXCEPT ![r.s].last_timestamp = r.last]
               ELSE temp
    /\ ScanFrom(r.pos, scan_forward(file, r.pos))

SamplesChunkFails ==
    /\ Dispatch(3)
    /\ samples_failed(read_samples_chunk(file, body, temp))
    /\ chunk' = Seen("recovered")
    /\ UNCHANGED <<exists, file, layout, options, pc, fopen, streams, info,
                   fileheader, has_stamp, err, result>>

stream_footer(sb, s, xml_string) ==
    IF Len(sb) = 4 /\ xml_ok(xml_string, 1) /\ s \in DOMAIN info
    THEN /\ info' = [info EXCEPT ![s].footer = xml_fields(xml_string)]
         /\ Continue(body + 4 + Len(xml_string))
    ELSE /\ HandlerRaises(IF Len(sb) < 4 THEN "struct.error"
                          ELSE IF ~xml_ok(xml_string, 1) THEN "ParseError"
                          ELSE "KeyError",
                          body + Len(sb) + Len(xml_string))
         /\ UNCHANGED info

StreamFooterChunk ==
    /\ Dispatch(6)
    /\ stream_footer(read(file, body, 4), unpack_uint(read(file, body, 4)),
                     read(file, body + 4, chunklen.val - 6))
    /\ UNCHANGED <<streams, temp, fileheader, has_stamp>>

\* the offset value is put in front of the earlier ones
clock_offset_unpaired(sb, s, tb, vb) ==
    IF Len(sb) = 4 /\ s \in DOMAIN temp /\ Len(tb) = 8 /\ Len(vb) = 8
    THEN /\ temp' = [temp EXCEPT
                ![s].clock_times = Append(@, unpack_double(tb)),
                ![s].clock_values = <<unpack_double(vb)>> \o @]
         /\ Continue(body + 20)
    ELSE /\ HandlerRaises(IF Len(sb) = 4 /\ s \notin DOMAIN temp THEN "KeyError"
                          ELSE "struct.error",
                          body + Len(sb) + Len(tb) + Len(vb))
         /\ UNCHANGED temp

clock_offset(sb, s, tb, vb) ==
    IF Len(sb) = 4 /\ s \in DOMAIN temp /\ Len(tb) = 8 /\ Len(vb) = 8
    THEN /\ temp' = [temp EXCEPT
                ![s].clock_times = Append(@, unpack_double(tb)),
                ![s].clock_values = Append(@, unpack_double(vb))]
         /\ Continue(body + 20)
    ELSE /\ HandlerRaises(IF Len(sb) = 4 /\ s \notin DOMAIN temp THEN "KeyError"
                          ELSE "struct.error",
                          body + Len(sb) + Len(tb) + Len(vb))
         /\ UNCHANGED temp

ClockOffsetChunk ==
    /\ Dispatch(4)
    /\ clock_offset(read(file, body, 4), unpack_uint(read(file, body, 4)),
                    read(file, body + 4, 8), read(file, body + 12, 8))
    /\ UNCHANGED <<streams, info, fileheader, has_stamp>>

\* any other tag (Boundary, ...): the content is skipped
OtherChunk ==
    /\ pc = "loop"
    /\ chunklen.ok
    /\ Len(tagbytes) = 2
    /\ unpack_uint(tagbytes) \notin {1, 2, 3, 4, 6}
    /\ Continue(body + Len(read(file, body, chunklen.val - 2)))
    /\ UNCHANGED <<streams, info, temp, fileheader, has_stamp>>

\* ------------------------------------------------------------------------
\* After the loop
\* ------------------------------------------------------------------------
Ids == {streams[i] : i \in 1..Len(streams)}

\* the exception of the first stream, in dict order, for which a pass raises
first_raise(out) ==
    IF \A i \in 1..Len(streams) : out[streams[i]].raises = "none" THEN "none"
    ELSE out[streams[CHOOSE i \in 1..Len(streams) :
                /\ out[streams[i]].raises # "none"
                /\ \A j \in 1..(i - 1) : out[streams[j]].raises = "none"]].raises

AfterLoop ==
    UNCHANGED <<exists, file, layout, fopen, pos, streams, info, fileheader,
                chunk, scan, has_stamp>>

\* a pass over temp.values() with the outcome out[s] = [raises, sd] per stream
Pass(out, next) ==
    IF first_raise(out) = "none"
    THEN /\ temp' = [s \in DOMAIN temp |-> out[s].sd]
         /\ pc' = next
         /\ UNCHANGED err
    ELSE /\ pc' = "raised"
         /\ err' = first_raise(out)
         /\ UNCHANGED temp

\* concatenate the signal across chunks
Concatenate ==
    /\ pc = "concat"
    /\ temp' = [s \in DOMAIN temp |-> concatenate(temp[s])]
    /\ pc' = "sync"
    /\ UNCHANGED <<options, err, result>>
    /\ AfterLoop

\* synchronize_clocks is set
ClockSync ==
    /\ pc = "sync"
    /\ \E handle_clock_resets \in BOOLEAN :
          /\ options' = put(put(options, "synchronize_clocks", TRUE),
                             "handle_clock_resets", handle_clock_resets)
          /\ Pass([s \in DOMAIN temp |-> clock_sync(temp[s], handle_clock_resets)],
                  "dejitter")
    /\ UNCHANGED result
    /\ AfterLoop

\* synchronize_clocks is not set
NoClockSync ==
    /\ pc = "sync"
    /\ options' = put(options, "synchronize_clocks", FALSE)
    /\ pc' = "dejitter"
    /\ UNCHANGED <<temp, err, result>>
    /\ AfterLoop

\* dejitter_timestamps is set
JitterRemoval ==
    /\ pc = "dejitter"
    /\ options' = put(options, "dejitter_timestamps", TRUE)
    /\ Pass([s \in DOMAIN temp |-> jitter_removal(temp[s])], "finish")
    /\ UNCHANGED result
    /\ AfterLoop

\* dejitter_timestamps is not set
NaiveSrate ==
    /\ pc = "dejitter"
    /\ options' = put(options, "dejitter_timestamps", FALSE)
    /\ Pass([s \in DOMAIN temp |-> naive_srate(temp[s])], "finish")
    /\ UNCHANGED result
    /\ AfterLoop

\* streams[k] completed with the data of temp[k]
final_stream(k) ==
    [id |-> k,
     info |-> info[k].info,
     footer |-> info[k].footer,
     effective_srate |-> temp[k].effective_srate,
     time_series |-> temp[k].time_series,
     time_stamps |-> temp[k].time_stamps]

\* the final loop over streams.keys() and the return
Return ==
    /\ pc = "finish"
    /\ IF \E s \in Ids : temp[s].effective_srate = Unset
       THEN /\ pc' = "raised"
            /\ err' = "AttributeError"
            /\ UNCHANGED result
       ELSE /\ pc' = "done"
            /\ result' = [streams |-> [i \in 1..Len(streams) |->
                                          final_stream(streams[i])],
                          fileheader |-> fileheader]
            /\ UNCHANGED err
    /\ UNCHANGED <<exists, file, layout, options, fopen, pos, streams, info,
                   temp, fileheader, chunk, scan, has_stamp>>

Next ==
    \/ FileMissing
    \/ BadMagic
    \/ ReadMagic
    \/ LengthScan
    \/ LengthBreak
    \/ TagRaises
    \/ FileHeaderChunk
    \/ StreamHeaderChunk
    \/ SamplesChunk
    \/ SamplesChunkFails
    \/ StreamFooterChunk
    \/ ClockOffsetChunk
    \/ OtherChunk
    \/ Concatenate
    \/ ClockSync
    \/ NoClockSync
    \/ JitterRemoval
    \/ NaiveSrate
    \/ Return

Spec == Init /\ [][Next]_vars

\* ------------------------------------------------------------------------
\* Properties of the result
\* ------------------------------------------------------------------------
rows(time_series) == Len(time_series)

AfterTheLoop == pc \in {"concat", "sync", "dejitter", "finish", "done"}

\* the chunks of the file before its last one
Earlier(names) == SubSeq(names, 1, Len(names) - 1)

\* C1: every stream load_xdf returns has as many time stamps as its
\* time_series has rows, under every combination of the options
C1_StampsMatchRows ==
    pc = "done" =>
        \A i \in 1..Len(result.streams) :
            Len(result.streams[i].time_stamps)
                = rows(result.streams[i].time_series)

\* a file that starts with Samples chunks of unknown streams, followed by a
\* Boundary chunk and a whole StreamHeader
SentinelThenHeader ==
    /\ layout.cut = 0
    /\ Len(layout.names) = 3
    /\ layout.names[1] \in DOMAIN Records
    /\ layout.names[2] = "bd"
    /\ layout.names[3] \in {"sh1", "sh2"}

\* C2: when _scan_forward finds the sentinel it leaves the reader at the first
\* byte after the sentinel, and the chunks after the sentinel are decoded
C2_ScanResumesAfterSentinel ==
    /\ scan.match # -1 => pos = scan.match + Len(signature)
    /\ (SentinelThenHeader /\ AfterTheLoop) =>
           StreamOf[layout.names[3]] \in DOMAIN temp

\* every Samples chunk of names follows the StreamHeader of its stream, and
\* the other chunks are FileHeader and Boundary chunks
RECURSIVE well_formed(_, _)
well_formed(names, known) ==
    IF names = <<>> THEN TRUE
    ELSE IF Head(names) \in {"sh1", "sh2"}
    THEN well_formed(Tail(names), known \cup {StreamOf[Head(names)]})
    ELSE IF Head(names) \in DOMAIN Records
    THEN StreamOf[Head(names)] \in known /\ well_formed(Tail(names), known)
    ELSE Head(names) \in {"fh", "bd"} /\ well_formed(Tail(names), known)

\* the cut takes away a part, and only a part, of a sample record of recs
mid_sample(recs, cut) ==
    \E k \in 1..Len(recs) :
        /\ Len(flatten(SubSeq(recs, k + 1, Len(recs)))) < cut
        /\ cut < Len(flatten(SubSeq(recs, k, Len(recs))))

\* the last chunk of the file is a Samples chunk cut off inside a sample
TruncatedMidSample ==
    /\ layout.names # <<>>
    /\ well_formed(layout.names, {})
    /\ layout.names[Len(layout.names)] \in DOMAIN Records
    /\ mid_sample(Records[layout.names[Len(layout.names)]], layout.cut)

\* the number of samples the chunks of names hold for stream s, n so far
RECURSIVE held(_, _, _)
held(names, s, n) ==
    IF names = <<>> THEN n
    ELSE IF Head(names) \in {"sh1", "sh2"} /\ StreamOf[Head(names)] = s
    THEN held(Tail(names), s, 0)
    ELSE IF Head(names) \in DOMAIN Records /\ StreamOf[Head(names)] = s
    THEN held(Tail(names), s, n + Len(Records[Head(names)]))
    ELSE held(Tail(names), s, n)

\* C3: on a file whose last Samples chunk is cut off inside a sample, load_xdf
\* does not raise, and the streams hold the samples of the earlier chunks and
\* no sample of the truncated chunk
C3_TruncatedChunkDropped ==
    TruncatedMidSample =>
        /\ pc # "raised"
        /\ AfterTheLoop =>
               \A s \in DOMAIN has_stamp :
                   Len(has_stamp[s]) = held(Earlier(layout.names), s, 0)

\* the file starts with the magic code and a whole chunk of a known tag
RecognizableChunk ==
    /\ magic_ok(layout.magic)
    /\ layout.names # <<>>
    /\ layout.names[1] # "big"
    /\ layout.cut <= Len(Concat(Tail(layout.names)))

\* C4: once the file has the magic code and a recognizable chunk, load_xdf
\* returns a result instead of raising, whatever follows in the file
C4_PopulatedResult == RecognizableChunk => pc # "raised"

\* sample j carries its time stamp and the samples after it, up to i, do not
run(flags, j, i) == flags[j] /\ \A k \in (j + 1)..i : ~flags[k]

\* the time stamps ts with the flags has: the k-th deduced stamp after an
\* explicit one is that one plus k * tdiff
deduced_from_base(ts, has, tdiff) ==
    /\ Len(ts) = Len(has)
    /\ \A j \in 1..Len(ts) : \A i \in (j + 1)..Len(ts) :
           run(has, j, i) => ts[i] = RAdd(ts[j], RMul(RInt(i - j), tdiff))

\* C5: the time stamps of a run of n samples without a stamp of their own
\* that follows an explicit time stamp base are base + k*tdiff, k = 1..n,
\* also when the run continues into the next Samples chunks of the stream
C5_DeducedStamps ==
    pc \in {"loop", "concat"} =>
        \A s \in DOMAIN temp :
            deduced_from_base(flatten(temp[s].time_stamps), has_stamp[s],
                              temp[s].tdiff)

\* a run of two deduced time stamps that goes on into a second chunk
C5_RunAcrossChunks ==
    /\ pc = "loop"
    /\ \E s \in DOMAIN temp :
           /\ Len(temp[s].time_stamps) = 2
           /\ has_stamp[s] = <<TRUE, FALSE, FALSE>>
           /\ RLess(RInt(0), temp[s].tdiff)

\* a whole file of FileHeader, StreamHeader and Boundary chunks only
HeaderOnly ==
    /\ layout.magic = MagicCode
    /\ layout.cut = 0
    /\ \A i \in 1..Len(layout.names) :
           layout.names[i] \in {"fh", "sh1", "sh2", "bd"}
    /\ \E i \in 1..Len(layout.names) : layout.names[i] \in {"sh1", "sh2"}

\* C6: a stream with a StreamHeader and no Samples chunk is valid under every
\* combination of the options: load_xdf does not raise and returns it with
\* no time stamps and a time_series of zero rows
C6_EmptyStreamsValid ==
    HeaderOnly =>
        /\ pc # "raised"
        /\ pc = "done" =>
               \A i \in 1..Len(result.streams) :
                   /\ result.streams[i].time_stamps = <<>>
                   /\ rows(result.streams[i].time_series) = 0

positive(x) == x[1] > 0

\* effective_srate is positive exactly for a regular stream of two samples
\* or more when jitter removal ran, and is 0 otherwise
srate_rule(stream, dejitter) ==
    /\ positive(stream.effective_srate)
           <=> /\ Len(stream.time_stamps) >= 2
               /\ stream.info[3] > 0
               /\ dejitter = TRUE
    /\ ~positive(stream.effective_srate) => stream.effective_srate = RInt(0)

\* C7: every finalized stream has an effective_srate, which is positive if
\* and only if the stream has at least two samples, a positive nominal rate
\* and jitter removal ran, and is 0 in every other case
C7_EffectiveSrateSign ==
    /\ pc = "finish" => \A s \in Ids : temp[s].effective_srate # Unset
    /\ pc = "done" =>
           \A i \in 1..Len(result.streams) :
               srate_rule(result.streams[i], options.dejitter_timestamps)

\* the segments of more than one sample among ranges
long_segments(ranges) ==
    {j \in 1..Len(ranges) : ranges[j][2] > ranges[j][1]}

\* n_i = e_i - b_i + 1
segment_samples(r) == r[2] - r[1] + 1

\* r_i * n_i with r_i = n_i / (t[e_i] - t[b_i])
weighted_rate(t, r) ==
    RMul(RDiv(RInt(segment_samples(r)), RSub(t[r[2] + 1], t[r[1] + 1])),
         RInt(segment_samples(r)))

RECURSIVE weighted_sum(_, _, _)
weighted_sum(t, ranges, j) ==
    IF j > Len(ranges) THEN RInt(0)
    ELSE IF ranges[j][2] > ranges[j][1]
    THEN RAdd(weighted_rate(t, ranges[j]), weighted_sum(t, ranges, j + 1))
    ELSE weighted_sum(t, ranges, j + 1)

RECURSIVE samples_sum(_, _)
samples_sum(ranges, j) ==
    IF j > Len(ranges) THEN 0
    ELSE IF ranges[j][2] > ranges[j][1]
    THEN segment_samples(ranges[j]) + samples_sum(ranges, j + 1)
    ELSE samples_sum(ranges, j + 1)

\* sum(r_i * n_i) / sum(n_i) over the segments of more than one sample
weighted_mean(t, ranges) ==
    RDiv(weighted_sum(t, ranges, 1), RInt(samples_sum(ranges, 1)))

\* jitter removal has run on the regular stream before and left it as after
mean_of_segments(before, after) ==
    (/\ before.srate > 0
     /\ Len(before.time_stamps) > 0
     /\ long_segments(jitter_ranges(before.time_stamps, before.tdiff)) # {})
        => after.effective_srate
               = weighted_mean(before.time_stamps,
                               jitter_ranges(before.time_stamps, before.tdiff))

JitterRemovalRan ==
    /\ pc = "dejitter"
    /\ pc' = "finish"
    /\ options'.dejitter_timestamps = TRUE

\* C8: after jitter removal of a regular stream, effective_srate is the
\* sample-weighted mean sum(r_i*n_i)/sum(n_i) of the rates of its segments
\* of more than one sample, taken on the time stamps before dejittering;
\* with a single segment that is n/(t_last - t_first)
C8_WeightedMeanRate ==
    [][JitterRemovalRan =>
          \A s \in DOMAIN temp : mean_of_segments(temp[s], temp'[s])]_vars

\* C9: a chunk processed without error is consumed to the end its declared
\* length gives: chunklen bytes after the length prefix, whatever its tag
C9_ChunkLengthConsumed ==
    (layout.cut = 0 /\ chunk.outcome = "ok") =>
        pos = chunk.body + chunk.chunklen

\* the path does not exist or the file does not start with "XDF:"
NotAnXdfFile == ~exists \/ read(file, 0, 4) # MagicCode

\* C10: on a path that does not exist or a file that does not start with
\* "XDF:", load_xdf raises before any chunk is read, returns nothing and
\* leaves no file open
C10_RejectedBeforeChunks ==
    NotAnXdfFile =>
        /\ pc \in {"start", "raised"}
        /\ chunk = NoChunk
        /\ streams = <<>>
        /\ fileheader = "None"
        /\ result = "none"
        /\ pc = "start" => ENABLED (FileMissing \/ BadMagic)
        /\ pc = "raised" =>
               /\ ~fopen
               /\ err = IF exists THEN "Exception: not a valid XDF file"
                        ELSE "Exception: does not exist"

\* a file with some chunks behind a wrong magic code has been rejected
C10_BadMagicRaised ==
    /\ pc = "raised"
    /\ exists
    /\ layout.names # <<>>
    /\ read(file, 0, 4) # MagicCode

\* ========================================================================
\* Cross-stream aligner: pyxdf _sync_timestamps and _limit_streams_to_overlap
\* (their code is not part of the sources; the definitions follow the
\* description of the Cross-Stream Aligner).  A stream is the record
\* [time_stamps, time_series, effective_srate, channel_format] with one
\* channel; numeric values are rationals and NaN is <<0, 0>>.
\* ========================================================================
\* samples of a generated regular stream
MaxRows == 3
NaN == Rat(0, 0)

RMin(x, y) == IF RLess(y, x) THEN y ELSE x

is_string(stream) == stream.channel_format = "string"

is_integer(stream) == stream.channel_format = "int32"

\* the highest effective_srate: the rate of the master stream
RECURSIVE fastest(_)
fastest(ss) ==
    IF Len(ss) = 1 THEN ss[1].effective_srate
    ELSE RMax(ss[1].effective_srate, fastest(Tail(ss)))

\* min over all streams of t_first
RECURSIVE t_first(_)
t_first(ss) ==
    IF Len(ss) = 1 THEN ss[1].time_stamps[1]
    ELSE RMin(ss[1].time_stamps[1], t_first(Tail(ss)))

\* max over all streams of t_last
RECURSIVE t_last(_)
t_last(ss) ==
    IF Len(ss) = 1 THEN ss[1].time_stamps[Len(ss[1].time_stamps)]
    ELSE RMax(ss[1].time_stamps[Len(ss[1].time_stamps)], t_last(Tail(ss)))

\* the least whole number of steps that is no less than x = <<p, q>>, x >= 0
ceiling(x) == (x[1] + x[2] - 1) \div x[2]

\* the nearest whole number to x = <<p, q>>, halves upwards
nearest(x) == (2 * x[1] + x[2]) \div (2 * x[2])

\* the uniform grid t0, t0 + step, .. that covers [t0, t1]
grid(t0, t1, step) ==
    [k \in 1..(ceiling(RDiv(RSub(t1, t0), step)) + 1) |->
        RAdd(t0, RMul(RInt(k - 1), step))]

\* the row of ts at or before t, for ts[1] <= t <= ts[Len(ts)]
row_before(ts, t) ==
    CHOOSE i \in 1..Len(ts) :
        /\ ~RLess(t, ts[i])
        /\ i = Len(ts) \/ RLess(t, ts[i + 1])

\* linear interpolation between row i and row i + 1
between(ts, vs, t, i) ==
    IF ts[i] = t THEN vs[i]
    ELSE RAdd(vs[i], RMul(RSub(vs[i + 1], vs[i]),
                          RDiv(RSub(t, ts[i]), RSub(ts[i + 1], ts[i]))))

\* the value at t: NaN outside the original span of the stream
interpolate(ts, vs, t) ==
    IF RLess(t, ts[1]) \/ RLess(ts[Len(ts)], t) THEN NaN
    ELSE between(ts, vs, t, row_before(ts, t))

\* integer-typed streams round to the nearest integer after interpolation
rounded(v) == IF v = NaN THEN NaN ELSE RInt(nearest(v))

\* the grid row nearest to the stamp t, 1-based
snap(t, t0, step) == nearest(RDiv(RSub(t, t0), step)) + 1

\* the markers that snap to grid row k
markers_at(ts, k, t0, step) == {i \in 1..Len(ts) : snap(ts[i], t0, step) = k}

\* all rows start empty; each marker is written at its grid row in turn
marker_row(vs, at) ==
    IF at = {} THEN "" ELSE vs[CHOOSE i \in at : \A j \in at : j <= i]

resample(stream, g, t0, step) ==
    IF is_string(stream)
    THEN [k \in 1..Len(g) |->
             marker_row(stream.time_series,
                        markers_at(stream.time_stamps, k, t0, step))]
    ELSE IF is_integer(stream)
    THEN [k \in 1..Len(g) |->
             rounded(interpolate(stream.time_stamps, stream.time_series, g[k]))]
    ELSE [k \in 1..Len(g) |->
             interpolate(stream.time_stamps, stream.time_series, g[k])]

sync_stream(stream, g, t0, step) ==
    [time_stamps |-> g,
     time_series |-> resample(stream, g, t0, step),
     effective_srate |-> RDiv(RInt(1), step),
     channel_format |-> stream.channel_format]

sync_onto(ss, t0, t1, step) ==
    [s \in 1..Len(ss) |-> sync_stream(ss[s], grid(t0, t1, step), t0, step)]

\* the first stream taken for the master
sync_to_first(ss) ==
    sync_onto(ss, t_first(ss), t_last(ss), RDiv(RInt(1), ss[1].effective_srate))

\* sync_timestamps(streams): the tdiff of the master defines the grid
sync_timestamps(ss) ==
    sync_onto(ss, t_first(ss), t_last(ss), RDiv(RInt(1), fastest(ss)))

\* the rows of a stream that hold data rather than the filling of the grid
original(stream) ==
    {k \in 1..Len(stream.time_stamps) :
        IF is_string(stream) THEN stream.time_series[k] # ""
        ELSE stream.time_series[k] # NaN}

first_original(stream, held_rows) ==
    stream.time_stamps[CHOOSE k \in held_rows : \A j \in held_rows : k <= j]

last_original(stream, held_rows) ==
    stream.time_stamps[CHOOSE k \in held_rows : \A j \in held_rows : j <= k]

\* max over streams of the first original timestamp
RECURSIVE t_lo(_)
t_lo(ss) ==
    IF Len(ss) = 1 THEN first_original(ss[1], original(ss[1]))
    ELSE RMax(first_original(ss[1], original(ss[1])), t_lo(Tail(ss)))

\* min over streams of the last original timestamp
RECURSIVE t_hi(_)
t_hi(ss) ==
    IF Len(ss) = 1 THEN last_original(ss[1], original(ss[1]))
    ELSE RMin(last_original(ss[1], original(ss[1])), t_hi(Tail(ss)))

within(t, lo, hi) == ~RLess(t, lo) /\ ~RLess(hi, t)

\* the rows kept under the temporal predicate, in order
RECURSIVE select(_, _, _, _, _)
select(ts, xs, lo, hi, k) ==
    IF k > Len(ts) THEN <<>>
    ELSE (IF within(ts[k], lo, hi) THEN <<xs[k]>> ELSE <<>>)
         \o select(ts, xs, lo, hi, k + 1)

\* the rows from the first stamp >= lo to the last stamp <= hi
index_slice(ts, xs, lo, hi) ==
    SubSeq(xs,
           Cardinality({k \in 1..Len(ts) : RLess(ts[k], lo)}) + 1,
           Cardinality({k \in 1..Len(ts) : ~RLess(hi, ts[k])}))

\* numeric streams are sliced by index, string streams by the predicate
limit_stream(stream, lo, hi) ==
    IF is_string(stream)
    THEN [stream EXCEPT
            !.time_stamps = select(stream.time_stamps, stream.time_stamps,
                                   lo, hi, 1),
            !.time_series = select(stream.time_stamps, stream.time_series,
                                   lo, hi, 1)]
    ELSE [stream EXCEPT
            !.time_stamps = index_slice(stream.time_stamps, stream.time_stamps,
                                        lo, hi),
            !.time_series = index_slice(stream.time_stamps, stream.time_series,
                                        lo, hi)]

limit_between(ss, lo, hi) ==
    [s \in 1..Len(ss) |-> limit_stream(ss[s], lo, hi)]

is_numeric(stream) == ~is_string(stream)

\* the overlap of the numeric streams only
limit_to_numeric_overlap(ss) ==
    limit_between(ss, t_lo(SelectSeq(ss, is_numeric)),
                  t_hi(SelectSeq(ss, is_numeric)))

\* limit_to_overlap(streams)
limit_to_overlap(ss) == limit_between(ss, t_lo(ss), t_hi(ss))

\* ------------------------------------------------------------------------
\* The aligner applied to sets of streams: result holds the streams, temp
\* the streams that were handed to the last call
\* ------------------------------------------------------------------------
Rates == {2, 4}

Starts == {RInt(0), Rat(1, 3), RInt(1)}

MarkerTimes == <<Rat(1, 5), Rat(11, 10), Rat(5, 2)>>

MarkerLabels == <<"mark_0", "mark_1", "mark_2">>

\* a regular stream of n samples at srate from start on
regular(srate, start, n, fmt) ==
    [time_stamps |-> [i \in 1..n |-> RAdd(start, Rat(i - 1, srate))],
     time_series |-> [i \in 1..n |->
                        IF fmt = "int32" THEN RInt(3 * i) ELSE Rat(i * i, 2)],
     effective_srate |-> RInt(srate),
     channel_format |-> fmt]

\* the elements of xs at the positions in S, in order
RECURSIVE pick(_, _, _)
pick(xs, S, k) ==
    IF k > Len(xs) THEN <<>>
    ELSE (IF k \in S THEN <<xs[k]>> ELSE <<>>) \o pick(xs, S, k + 1)

\* a marker stream
markers(S) ==
    [time_stamps |-> pick(MarkerTimes, S, 1),
     time_series |-> pick(MarkerLabels, S, 1),
     effective_srate |-> RInt(0),
     channel_format |-> "string"]

Regulars ==
    {regular(srate, start, n, fmt) :
        srate \in Rates, start \in Starts, n \in 2..MaxRows,
        fmt \in {"float32", "int32"}}

Markers == {markers(S) : S \in (SUBSET (1..Len(MarkerTimes))) \ {{}}}

\* a regular stream, then possibly another one, then possibly markers
AlignInputs ==
    {<<r>> \o more \o ms :
        r \in Regulars,
        more \in {<<>>} \cup {<<x>> : x \in Regulars},
        ms \in {<<>>} \cup {<<m>> : m \in Markers}}

AlignInit ==
    /\ result \in AlignInputs
    /\ temp = result
    /\ pc = "raw"
    /\ exists = FALSE
    /\ layout = [magic |-> <<>>, names |-> <<>>, cut |-> 0]
    /\ file = <<>>
    /\ options = <<>>
    /\ fopen = FALSE
    /\ pos = 0
    /\ streams = <<>>
    /\ info = <<>>
    /\ fileheader = "None"
    /\ chunk = NoChunk
    /\ scan = NoScan
    /\ has_stamp = <<>>
    /\ err = "none"

AlignIdle ==
    UNCHANGED <<exists, file, layout, options, fopen, pos, streams, info,
                fileheader, chunk, scan, has_stamp, err>>

SyncTimestamps ==
    /\ pc = "raw"
    /\ temp' = result
    /\ result' = sync_timestamps(result)
    /\ pc' = "synced"
    /\ AlignIdle

LimitToOverlap ==
    /\ pc \in {"raw", "synced"}
    /\ temp' = result
    /\ result' = limit_to_overlap(result)
    /\ pc' = IF pc = "raw" THEN "limited" ELSE "synced and limited"
    /\ AlignIdle

AlignNext == SyncTimestamps \/ LimitToOverlap

AlignSpec == AlignInit /\ [][AlignNext]_vars

\* the earliest first and the latest last timestamp of a set of streams
earliest(ss) ==
    CHOOSE t \in {ss[s].time_stamps[1] : s \in 1..Len(ss)} :
        \A s \in 1..Len(ss) : ~RLess(ss[s].time_stamps[1], t)

latest(ss) ==
    CHOOSE t \in {ss[s].time_stamps[Len(ss[s].time_stamps)] : s \in 1..Len(ss)} :
        \A s \in 1..Len(ss) : ~RLess(t, ss[s].time_stamps[Len(ss[s].time_stamps)])

highest_rate(ss) ==
    CHOOSE r \in {ss[s].effective_srate : s \in 1..Len(ss)} :
        \A s \in 1..Len(ss) : ~RLess(r, ss[s].effective_srate)

\* g starts at lo, advances by step and ends at the first point at or after hi
uniform_cover(g, lo, hi, step) ==
    /\ g[1] = lo
    /\ \A k \in 1..(Len(g) - 1) : RSub(g[k + 1], g[k]) = step
    /\ ~RLess(g[Len(g)], hi)
    /\ RLess(RSub(g[Len(g)], step), hi) \/ Len(g) = 1

same_grid(before, after, rate) ==
    \A s \in 1..Len(after) :
        /\ after[s].time_stamps = after[1].time_stamps
        /\ after[s].effective_srate = rate
        /\ uniform_cover(after[s].time_stamps, earliest(before), latest(before),
                         RDiv(RInt(1), rate))

\* C11: after sync_timestamps every stream has the same time_stamps, a
\* uniform grid whose step is that of the stream with the highest
\* effective_srate, which starts at the earliest first timestamp and reaches
\* the latest last timestamp of all streams; every effective_srate equals
\* that of the fastest stream
C11_CommonGrid ==
    pc = "synced" =>
        /\ Len(result) = Len(temp)
        /\ same_grid(temp, result, highest_rate(temp))

\* a float, an integer and a marker stream were synchronized; the second is
\* the fastest and the markers begin first and end last
C11_ThreeKindsSynced ==
    /\ pc = "synced"
    /\ Len(temp) = 3
    /\ temp[1].channel_format = "float32"
    /\ temp[2].channel_format = "int32"
    /\ temp[3].channel_format = "string"
    /\ RLess(temp[1].effective_srate, temp[2].effective_srate)
    /\ temp[3].time_stamps[1] = earliest(temp)
    /\ temp[3].time_stamps[Len(temp[3].time_stamps)] = latest(temp)
    /\ Len(result[1].time_stamps) > MaxRows

\* the largest first and the smallest last timestamp that holds data
largest_first(ss) ==
    CHOOSE t \in {first_original(ss[s], original(ss[s])) : s \in 1..Len(ss)} :
        \A s \in 1..Len(ss) : ~RLess(t, first_original(ss[s], original(ss[s])))

smallest_last(ss) ==
    CHOOSE t \in {last_original(ss[s], original(ss[s])) : s \in 1..Len(ss)} :
        \A s \in 1..Len(ss) : ~RLess(last_original(ss[s], original(ss[s])), t)

\* the rows of ts whose stamp lies in [lo, hi]
rows_within(ts, lo, hi) ==
    {k \in 1..Len(ts) : ~RLess(ts[k], lo) /\ ~RLess(hi, ts[k])}

\* the j-th row of the set S of rows
jth(S, j) == CHOOSE k \in S : Cardinality({i \in S : i < k}) = j - 1

\* after holds exactly the rows S of before, in order, stamps with values
keeps_rows(before, after, S) ==
    /\ Len(after.time_stamps) = Cardinality(S)
    /\ Len(after.time_series) = Cardinality(S)
    /\ \A j \in 1..Cardinality(S) :
        /\ after.time_stamps[j] = before.time_stamps[jth(S, j)]
        /\ after.time_series[j] = before.time_series[jth(S, j)]

limited_to(before, after, lo, hi) ==
    /\ Len(after) = Len(before)
    /\ \A s \in 1..Len(before) :
        keeps_rows(before[s], after[s],
                   rows_within(before[s].time_stamps, lo, hi))

\* C12: after limit_to_overlap, with t_lo the largest first timestamp and
\* t_hi the smallest last timestamp over all streams, marker streams
\* included, each stream keeps exactly the rows whose timestamp lies in
\* [t_lo, t_hi], in their order and with their values; the rows outside are
\* removed from time_stamps and time_series alike
C12_RowsInOverlap ==
    pc \in {"limited", "synced and limited"} =>
        limited_to(temp, result, largest_first(temp), smallest_last(temp))

\* the markers begin after and end before a regular stream, which loses
\* rows on both sides, and one marker lies outside the regular stream
C12_MarkersLimit ==
    /\ pc = "limited"
    /\ Len(temp) = 2
    /\ temp[2].channel_format = "string"
    /\ Len(result[1].time_stamps) > 0
    /\ Len(result[1].time_stamps) + 2 <= Len(temp[1].time_stamps)
    /\ result[1].time_stamps[1] # temp[1].time_stamps[1]
    /\ Len(result[2].time_stamps) < Len(temp[2].time_stamps)

\* ========================================================================
\* _clock_sync on one stream whose clock offsets and time stamps are drawn
\* from bounded sets: load_xdf at the call of _clock_sync
\* ========================================================================
\* clock offsets of the stream
MaxClocks == 4
\* samples of the stream
MaxSamples == 5

\* <<collection time, offset value>> in seconds
ClockPoints == {<<0, 0>>, <<1, 0>>, <<1, 1>>, <<2, 2>>,
                <<100, 100>>, <<101, 101>>, <<102, 102>>}

\* the points of a range lie on one line, or the fit raises
fit_known(t, v) ==
    \/ robust_fit_raises(t)
    \/ \E i \in {k \in 1..Len(t) : t[k] # t[1]} :
          on_line(t, v, line_through(t, v, i, slope_to(t, v, i))[1],
                  slope_to(t, v, i))

fits_known(sd, ranges) ==
    \A j \in 1..Len(ranges) :
        ranges[j][1] # ranges[j][2] =>
            fit_known(range_of(sd.clock_times, ranges[j]),
                      range_of(sd.clock_values, ranges[j]))

\* stream 1 (int8, 2 channels, 50 Hz) after the concatenation, with n samples
\* ten seconds apart and the clock offsets pts
clocked_stream(n, pts) ==
    [StreamData(<<1, 2, 50>>) EXCEPT
        !.time_stamps = [i \in 1..n |-> RInt(10 * i)],
        !.time_series = [i \in 1..n |-> <<i, i>>],
        !.last_timestamp = RInt(10 * n),
        !.clock_times = [i \in 1..Len(pts) |-> RInt(pts[i][1])],
        !.clock_values = [i \in 1..Len(pts) |-> RInt(pts[i][2])]]

\* the streams for which the model knows the result of every fit
ClockedStreams ==
    {sd \in {clocked_stream(n, pts) :
                n \in 1..MaxSamples, pts \in SeqsUpTo(ClockPoints, MaxClocks)} :
        \A h \in BOOLEAN :
            fits_known(sd, clock_ranges(sd.clock_times, sd.clock_values, h))}

ClockInit ==
    /\ pc = "sync"
    /\ \E sd \in ClockedStreams :
          /\ temp = put(<<>>, 1, sd)
          /\ has_stamp = put(<<>>, 1, [i \in 1..Len(sd.time_stamps) |-> TRUE])
    /\ streams = <<1>>
    /\ info = put(<<>>, 1, [info |-> <<1, 2, 50>>, footer |-> "none"])
    /\ exists = TRUE
    /\ layout = [magic |-> MagicCode, names |-> <<>>, cut |-> 0]
    /\ file = <<>>
    /\ options = <<>>
    /\ fopen = FALSE
    /\ pos = 0
    /\ fileheader = "None"
    /\ chunk = NoChunk
    /\ scan = NoScan
    /\ err = "none"
    /\ result = "none"

ClockNext == ClockSync

ClockSpec == ClockInit /\ [][ClockNext]_vars

\* the segments between the resets at idx: (0, i1), (i1+1, i2), ..
\* (ik+1, n-1)
segments(idx, n) ==
    [j \in 1..(Len(idx) + 1) |->
        <<IF j = 1 THEN 0 ELSE idx[j - 1] + 1,
          IF j = Len(idx) + 1 THEN n - 1 ELSE idx[j]>>]

\* _clock_sync ran with handle_clock_resets on a stream with resets
reset_handled(sd) ==
    /\ pc # "sync"
    /\ options.handle_clock_resets
    /\ Len(sd.time_stamps) > 0
    /\ Len(sd.clock_times) >= 2
    /\ where(clock_resets(sd.clock_times, sd.clock_values), 1) # <<>>

\* C13: when clock synchronization detects resets at the indices
\* i1 < .. < ik of the clock offsets t, the segments it fits are exactly
\* (0, i1), (i1+1, i2), .., (ik+1, len(t)-1): begin <= end in each, disjoint,
\* contiguous and covering [0, len(t)-1]
C13_ResetSegments ==
    \A s \in DOMAIN temp :
        reset_handled(temp[s]) =>
            clock_ranges(temp[s].clock_times, temp[s].clock_values, TRUE)
              = segments(where(clock_resets(temp[s].clock_times,
                                            temp[s].clock_values), 1),
                         Len(temp[s].clock_times))

\* t corrected once with the coefficients <<a, b>>
once(t, coef) == RAdd(t, RAdd(coef[1], RMul(coef[2], t)))

\* sample i (0-based) is held by the inclusive range r = (begin, end)
holds(r, i) == r[1] <= i /\ i <= r[2]

\* every time stamp of after is the stamp of before corrected once, with
\* the coefficients of a range that holds it
corrected_once(before, after, ranges) ==
    \A i \in 1..Len(before.time_stamps) :
        \E j \in 1..Len(ranges) :
            /\ holds(ranges[j], i - 1)
            /\ after.time_stamps[i]
                 = once(before.time_stamps[i], clock_coef(before, ranges[j]))

\* C14: when clock synchronization works on several segments, the (a, b)
\* of each segment is applied to the inclusive range [begin, end] of that
\* segment and every sample time stamp is corrected exactly once
C14_InclusiveOnce ==
    [][(pc = "sync" /\ pc' = "dejitter" /\ options'.synchronize_clocks
        /\ options'.handle_clock_resets)
       => \A s \in DOMAIN temp :
            (/\ Len(temp[s].time_stamps) > 0
             /\ Len(clock_ranges(temp[s].clock_times, temp[s].clock_values,
                                 TRUE)) > 1)
            => corrected_once(temp[s], temp'[s],
                              clock_ranges(temp[s].clock_times,
                                           temp[s].clock_values, TRUE))]_vars

\* some stream holds samples and no stream that holds samples has a
\* ClockOffset measurement
samples_without_offsets ==
    /\ \E s \in DOMAIN temp : Len(temp[s].time_stamps) > 0
    /\ \A s \in DOMAIN temp :
          Len(temp[s].time_stamps) > 0 => temp[s].clock_times = <<>>

\* C15: with synchronize_clocks set, a stream that has samples but no
\* ClockOffset chunk keeps its time_stamps unchanged and clock
\* synchronization completes without error, handle_clock_resets on or off
C15_NoOffsetsNoChange ==
    [][(pc = "sync" /\ samples_without_offsets /\ options'.synchronize_clocks)
       => (pc' = "dejitter" /\ temp' = temp)]_vars

\* the breaks of a regular stream with samples, as 0-based indices
break_indices(sd) ==
    where(breaks(diff(sd.time_stamps),
                 RMax(RInt(jitter_break_threshold_seconds),
                      RMul(RInt(jitter_break_threshold_samples), sd.tdiff))), 1)

\* the 1-based positions of the segments (b, e) with e > b
overwritten(segs) ==
    {i \in 1..(segs[Len(segs)][2] + 1) :
        \E j \in 1..Len(segs) :
            segs[j][2] > segs[j][1] /\ segs[j][1] < i /\ i <= segs[j][2] + 1}

\* only the time stamps at the positions S differ between before and after
only_stamps_change(before, after, S) ==
    /\ Len(after.time_stamps) = Len(before.time_stamps)
    /\ after.time_series = before.time_series
    /\ \A i \in 1..Len(before.time_stamps) :
          i \notin S => after.time_stamps[i] = before.time_stamps[i]

dejittered(before, after) ==
    IF Len(before.time_stamps) > 0 /\ before.srate > 0
    THEN only_stamps_change(before, after,
             overwritten(segments(break_indices(before),
                                  Len(before.time_stamps))))
    ELSE only_stamps_change(before, after, {})

\* C16: the Jitter Remover splits [0, N-1] at the breaks into disjoint
\* contiguous segments and, for each segment with e > b, overwrites only
\* time_stamps[b..e]; N, time_series and the streams that are irregular or
\* have no samples stay as they are, and it completes without error for any
\* number of breaks
C16_OnlySegmentsRewritten ==
    [][(pc = "dejitter" /\ options'.dejitter_timestamps)
       => /\ pc' = "finish"
          /\ \A s \in DOMAIN temp : dejittered(temp[s], temp'[s])]_vars

\* ========================================================================
\* _scan_forward on files drawn from a bounded set: short files with the
\* boundary signature at every offset, and files longer than one block.
\* Here a file is kept sparse, as [hole, data]: hole zero bytes followed by
\* the bytes data.
\* ========================================================================
\* zero bytes before and after the signature in a short file
MaxPad == 4

zeros(n) == [i \in 1..n |-> 0]

\* the bytes of the sparse file f
contents(f) == zeros(f.hole) \o f.data

\* the signature after n zeros and before m zeros
around(n, m) == [hole |-> n, data |-> signature \o zeros(m)]

\* two signatures
twice(n, m) == [hole |-> n, data |-> signature \o zeros(m) \o signature]

\* the signature with its last byte missing
almost(n, m) ==
    [hole |-> n, data |-> SubSeq(signature, 1, 15) \o zeros(m)]

ShortFiles ==
    {around(n, m) : n \in 0..MaxPad, m \in 0..MaxPad}
    \cup {twice(n, m) : n \in 0..MaxPad, m \in 0..MaxPad}
    \cup {almost(n, m) : n \in 0..MaxPad, m \in 0..MaxPad}

\* the signature begins k bytes before the end of the first block: with
\* k = 16 it ends the block, with k = 0 it begins the next one
LongFiles == {around(blocklen - k, k) : k \in {0, 8, 16}}

ScanInit ==
    /\ pc = "scan"
    /\ \/ file \in ShortFiles /\ pos \in 0..MaxPad
       \/ file \in LongFiles /\ pos = 0
    /\ scan = NoScan
    /\ fopen = TRUE
    /\ exists = TRUE
    /\ layout = [magic |-> <<>>, names |-> <<>>, cut |-> 0]
    /\ options = <<>>
    /\ streams = <<>>
    /\ info = <<>>
    /\ temp = <<>>
    /\ fileheader = "None"
    /\ chunk = NoChunk
    /\ has_stamp = <<>>
    /\ err = "none"
    /\ result = "none"

scanned(from, r) == [from |-> from, pos |-> r.pos, match |-> r.match]

\* one call of _scan_forward(f) with f.tell() = pos
ScanForward ==
    /\ pc = "scan"
    /\ scan' = scanned(pos, scan_forward(contents(file), pos))
    /\ pos' = scan'.pos
    /\ pc' = "scanned"
    /\ UNCHANGED <<exists, file, layout, options, fopen, streams, info, temp,
                   fileheader, chunk, has_stamp, err, result>>

ScanNext == ScanForward

ScanSpec == ScanInit /\ [][ScanNext]_vars

\* the offset of the first sentinel of the bytes B at or after p, or -1
first_sentinel(B, p) ==
    least({i \in p..(Len(B) - 16) : SubSeq(B, i + 1, i + 16) = signature})

\* C17: the Boundary Scanner finds the first occurrence of the 16-byte
\* sentinel at or after the current position wherever it lies in the file,
\* across the boundary of two read blocks included, and reports no match
\* only when the rest of the file holds no sentinel
C17_FirstSentinelFound ==
    pc = "scanned" => scan.match = first_sentinel(contents(file), scan.from)

\* every chunk of names is whole and decodes: the chunks that carry a stream
\* id follow a header of that stream
RECURSIVE orderly(_, _)
orderly(names, known) ==
    IF names = <<>> THEN TRUE
    ELSE IF Head(names) \in {"sh1", "sh2"}
    THEN orderly(Tail(names), known \cup {StreamOf[Head(names)]})
    ELSE IF Head(names) \in {"smA", "smB", "smS", "co1", "ft1"}
    THEN StreamOf[Head(names)] \in known /\ orderly(Tail(names), known)
    ELSE Head(names) \in {"fh", "bd", "big"} /\ orderly(Tail(names), known)

\* the stream ids of names in the order of their first header
RECURSIVE first_headers(_, _)
first_headers(names, ids) ==
    IF names = <<>> THEN ids
    ELSE IF /\ Head(names) \in {"sh1", "sh2"}
            /\ \A i \in 1..Len(ids) : ids[i] # StreamOf[Head(names)]
    THEN first_headers(Tail(names), Append(ids, StreamOf[Head(names)]))
    ELSE first_headers(Tail(names), ids)

\* the clock offsets of stream s since its last header, n so far
RECURSIVE offsets_held(_, _, _)
offsets_held(names, s, n) ==
    IF names = <<>> THEN n
    ELSE IF Head(names) \in {"sh1", "sh2"} /\ StreamOf[Head(names)] = s
    THEN offsets_held(Tail(names), s, 0)
    ELSE IF Head(names) = "co1" /\ StreamOf[Head(names)] = s
    THEN offsets_held(Tail(names), s, n + 1)
    ELSE offsets_held(Tail(names), s, n)

\* the buffer of stream s holds what followed the last header of s
since_last_header(names, sd, s) ==
    /\ Len(flatten(sd.time_stamps)) = held(names, s, 0)
    /\ Len(flatten(sd.time_series)) = held(names, s, 0)
    /\ Len(sd.clock_times) = offsets_held(names, s, 0)
    /\ Len(sd.clock_values) = offsets_held(names, s, 0)
    /\ held(names, s, 0) = 0 => sd.last_timestamp = RInt(0)

\* C18: a StreamHeader for a stream id that has a buffer replaces the info
\* and the buffer of the stream: the samples and clock offsets buffered
\* before it are absent from the result, last_timestamp restarts at 0, the
\* stream keeps the position of its first header and the list returned has
\* one entry for each id
C18_HeaderReplacesBuffer ==
    (layout.magic = MagicCode /\ layout.cut = 0 /\ orderly(layout.names, {}))
    => /\ pc = "concat" =>
            /\ streams = first_headers(layout.names, <<>>)
            /\ \A s \in DOMAIN temp :
                  since_last_header(layout.names, temp[s], s)
       /\ pc = "done" =>
            /\ Len(result.streams) = Len(first_headers(layout.names, <<>>))
            /\ \A i \in 1..Len(result.streams) :
                  /\ result.streams[i].id = first_headers(layout.names, <<>>)[i]
                  /\ Len(result.streams[i].time_stamps)
                       = held(layout.names, result.streams[i].id, 0)

\* stream 1 is announced again after a chunk of its samples and returned
C18_HeaderAfterSamples ==
    /\ pc = "done"
    /\ layout.cut = 0
    /\ Len(layout.names) = 3
    /\ layout.names[1] = "sh1"
    /\ layout.names[2] \in {"smA", "smB"}
    /\ layout.names[3] = "sh1"
    /\ Len(result.streams) = 1
    /\ result.streams[1].time_stamps = <<>>

\* C19: when the decoding of a Samples chunk fails partway, the buffers of
\* every stream are left as they were before the chunk: nothing is appended
\* to time_stamps or time_series, the two lists keep their equal length and
\* last_timestamp keeps the value it had before the chunk
C19_FailedChunkLeavesBuffers ==
    [][(pc = "loop" /\ chunk'.outcome = "recovered")
       => /\ temp' = temp
          /\ \A s \in DOMAIN temp :
                Len(temp'[s].time_stamps) = Len(temp'[s].time_series)]_vars

\* an iteration that stays in the loop moves the reader forward, within the
\* file
advances == (pc = "loop" /\ pc' = "loop") => (pos < pos' /\ pos' <= filesize)

\* a scan that found no sentinel has left the reader at the end of the file
scan_ended == pc = "loop" /\ scan.from # -1 /\ scan.match = -1

\* the iteration after a scan without a match leaves the loop and keeps
\* what was accumulated
ends_after_scan ==
    scan_ended =>
        /\ pos = filesize
        /\ pc' = "concat"
        /\ streams' = streams /\ info' = info /\ temp' = temp
        /\ fileheader' = fileheader

\* C20: on every file with a valid magic code the chunk loop terminates:
\* every iteration leaves the loop or strictly advances the file position,
\* which the size of the file bounds, the iterations that scan for the
\* sentinel included; a scan that reaches the end of the file without a
\* match is followed by the normal end of the loop with the data
\* accumulated so far
C20_LoopAdvances == [][advances /\ ends_after_scan]_vars

\* a failed Samples chunk of a known stream was followed by a scan that
\* reached the end of the file
C20_ScanReachedEnd ==
    /\ scan_ended
    /\ chunk.outcome = "recovered"
    /\ streams # <<>>
    /\ pos = filesize


\* ------------------------------------------------------------------------
\* Files in which the chunks of two streams are interleaved
\* ------------------------------------------------------------------------
\* the chunks of the other stream that a file holds at most
MaxOthers == 3

\* the clock offsets of the files, in ms: <<collection_time, offset_value>>
Offsets == [co1 |-> <<2000, 500>>, co2 |-> <<7000, 750>>, coS |-> <<3000, 250>>]

\* the stream id of a chunk
stream_of(name) ==
    IF name \in DOMAIN StreamOf THEN StreamOf[name]
    ELSE IF name = "co2" THEN 1 ELSE 2

\* the bytes of a chunk
chunk_bytes(name) ==
    IF name \in DOMAIN Chunks THEN Chunks[name]
    ELSE pack_chunk(4, pack_uint(stream_of(name), 4)
                       \o pack_uint(Offsets[name][1], 8)
                       \o pack_uint(Offsets[name][2], 8))

RECURSIVE chunks_bytes(_)
chunks_bytes(names) ==
    IF names = <<>> THEN <<>>
    ELSE chunk_bytes(Head(names)) \o chunks_bytes(Tail(names))

\* the chunks of stream 1 in the orders the files hold them
OwnChunks ==
    { <<"sh1", "smA", "co1", "smB", "co2">>,
      <<"sh1", "smB", "co2", "smA", "co1">>,
      <<"sh1", "co2", "co1", "smA", "smB">>,
      <<"sh1", "smA", "smB", "co1", "co2">> }

\* the chunks of stream 2
OtherChunks == <<"sh2", "smS", "coS", "smS">>

\* the ways of merging the sequences a and b, each keeping its order
RECURSIVE interleavings(_, _)
interleavings(a, b) ==
    IF a = <<>> THEN {b}
    ELSE IF b = <<>> THEN {a}
    ELSE {<<Head(a)>> \o m : m \in interleavings(Tail(a), b)}
         \cup {<<Head(b)>> \o m : m \in interleavings(a, Tail(b))}

Interleaved ==
    UNION {interleavings(own, SubSeq(OtherChunks, 1, k)) :
               own \in OwnChunks, k \in 0..MaxOthers}

OrderInit ==
    /\ exists = TRUE
    /\ layout \in {[magic |-> MagicCode, names |-> names, cut |-> 0] :
                       names \in Interleaved}
    /\ file = MagicCode \o chunks_bytes(layout.names)
    /\ options = <<>>
    /\ pc = "start"
    /\ fopen = FALSE
    /\ pos = 0
    /\ streams = <<>>
    /\ info = <<>>
    /\ temp = <<>>
    /\ fileheader = "None"
    /\ chunk = NoChunk
    /\ scan = NoScan
    /\ has_stamp = <<>>
    /\ err = "none"
    /\ result = "none"

OrderNext ==
    \/ ReadMagic
    \/ StreamHeaderChunk
    \/ SamplesChunk
    \/ ClockOffsetChunk
    \/ LengthBreak
    \/ Concatenate
    \/ ClockSync
    \/ NoClockSync
    \/ JitterRemoval
    \/ NaiveSrate
    \/ Return

OrderSpec == OrderInit /\ [][OrderNext]_vars

\* the Samples chunk name read on its own by a stream sd of id s whose last
\* time stamp is last
alone(name, s, sd, last) ==
    read_samples_chunk(chunk_bytes(name),
                       read_varlen_int(chunk_bytes(name), 0).pos + 2,
                       [x \in {s} |-> [sd EXCEPT !.last_timestamp = last]])

\* the Samples chunks of stream s among names, read one after the other and
\* laid end to end after acc
RECURSIVE in_file_order(_, _, _, _, _)
after_chunk(names, s, sd, acc, r) ==
    in_file_order(names, s, sd, r.last,
                  [time_stamps |-> acc.time_stamps \o r.stamps,
                   time_series |-> acc.time_series \o r.values])

in_file_order(names, s, sd, last, acc) ==
    IF names = <<>> THEN acc
    ELSE IF Head(names) \in DOMAIN Records /\ stream_of(Head(names)) = s
    THEN after_chunk(Tail(names), s, sd, acc, alone(Head(names), s, sd, last))
    ELSE in_file_order(Tail(names), s, sd, last, acc)

samples_in_file_order(names, s, sd) ==
    in_file_order(names, s, sd, RInt(0),
                  [time_stamps |-> <<>>, time_series |-> <<>>])

\* field k of the clock offsets of stream s among names, one per chunk
RECURSIVE offsets_in_file_order(_, _, _)
offsets_in_file_order(names, s, k) ==
    IF names = <<>> THEN <<>>
    ELSE IF Head(names) \in DOMAIN Offsets /\ stream_of(Head(names)) = s
    THEN <<Rat(Offsets[Head(names)][k], 1000)>>
             \o offsets_in_file_order(Tail(names), s, k)
    ELSE offsets_in_file_order(Tail(names), s, k)

\* an array without a sample
no_samples(time_series) ==
    \A i \in 1..Len(time_series) : time_series[i] = <<>>

\* the number of StreamHeader chunks of stream s among names
headers(names, s) ==
    Cardinality({i \in 1..Len(names) :
                    names[i] \in {"sh1", "sh2"} /\ stream_of(names[i]) = s})

\* the buffer sd of stream s holds the chunks of s among names in file order
series_in_order(sd, want) ==
    IF want.time_stamps = <<>> THEN no_samples(sd.time_series)
    ELSE sd.time_series = want.time_series

in_order(names, s, sd, want) ==
    /\ sd.time_stamps = want.time_stamps
    /\ series_in_order(sd, want)
    /\ sd.clock_times = offsets_in_file_order(names, s, 1)
    /\ sd.clock_values = offsets_in_file_order(names, s, 2)

\* C21: for each stream id with a single StreamHeader, the concatenated
\* time_stamps and time_series are the successfully decoded Samples chunks
\* of that id laid end to end in file order, and its clock offsets are kept
\* in file order, collection_time and offset_value of the same chunk at the
\* same index; the chunks of the other stream interleaved in the file change
\* neither; the time_series returned is the concatenated one
C21_FileOrderKept ==
    /\ pc = "sync" =>
          \A s \in DOMAIN temp :
              headers(layout.names, s) = 1 =>
                  in_order(layout.names, s, temp[s],
                           samples_in_file_order(layout.names, s, temp[s]))
    /\ pc = "done" =>
          \A i \in 1..Len(result.streams) :
              result.streams[i].time_series = temp[result.streams[i].id].time_series
    /\ pc \in {"dejitter", "finish", "done"} =>
          \A s \in DOMAIN temp :
              series_in_order(temp[s],
                              samples_in_file_order(layout.names, s, temp[s]))

\* chunk i of names belongs to stream s and is one of kinds
is_chunk(names, i, s, kinds) == names[i] \in kinds /\ stream_of(names[i]) = s

\* chunks of stream 2 lie between two chunks of kinds of stream 1
apart(names, kinds) ==
    \E i, j, k \in 1..Len(names) :
        /\ i < j /\ j < k
        /\ is_chunk(names, i, 1, kinds)
        /\ stream_of(names[j]) = 2
        /\ is_chunk(names, k, 1, kinds)

\* Samples and ClockOffset chunks of stream 2 lie between those of stream 1,
\* whose later clock offset was written first
C21_Interleaved ==
    /\ pc = "sync"
    /\ apart(layout.names, DOMAIN Records)
    /\ apart(layout.names, DOMAIN Offsets)
    /\ Len(temp[1].time_stamps) = 3
    /\ Len(temp[2].time_stamps) = 2
    /\ temp[1].clock_times = <<RInt(7), RInt(2)>>
    /\ temp[1].clock_values = <<Rat(750, 1000), Rat(500, 1000)>>


\* ------------------------------------------------------------------------
\* _robust_fit, iteration by iteration, on one range of clock offsets
\* ------------------------------------------------------------------------
\* clock offsets of a range on each side of its middle one
MaxSide == 2

winsor_threshold == Rat(1, 10000)
rho == 1
iters == 1000

\* sum of w[i] * r[i]
dot(w, r) == RSum([i \in 1..Len(w) |-> RMul(w[i], r[i])])

ones(n) == [i \in 1..n |-> RInt(1)]

squares(t) == [i \in 1..Len(t) |-> RMul(t[i], t[i])]

\* the solution p of [[s0, s1], [s1, s2]] p = [m0, m1]
cramer(s0, s1, s2, m0, m1, det) ==
    <<RDiv(RSub(RMul(s2, m0), RMul(s1, m1)), det),
      RDiv(RSub(RMul(s0, m1), RMul(s1, m0)), det)>>

solve2(s0, s1, s2, m0, m1) ==
    cramer(s0, s1, s2, m0, m1, RSub(RMul(s0, s2), RMul(s1, s1)))

\* the least-squares line <<a, b>> of r against t
lstsq(t, r) ==
    solve2(RInt(Len(t)), RSum(t), RSum(squares(t)), RSum(r), dot(t, r))

\* np.linalg.solve(U, np.linalg.solve(L, Aty + np.dot(A.T, z - u))) for
\* A = [1, t] / winsor_threshold: the solution of (A.T A) x = A.T (y + z - u),
\* the powers of winsor_threshold being cancelled before the products are
\* formed
solve_x(t, y, z, u) ==
    [j \in 1..2 |->
        RMul(winsor_threshold,
             lstsq(t, [i \in 1..Len(t) |-> RAdd(y[i], RSub(z[i], u[i]))])[j])]

\* row i of np.dot(A, x), the row of A being [1, t[i]] / winsor_threshold
dot_A(t, x, i) ==
    RAdd(RMul(RDiv(RInt(1), winsor_threshold), x[1]),
         RMul(RDiv(t[i], winsor_threshold), x[2]))

\* d = np.dot(A, x) - y + u
residual(t, y, u, x) ==
    [i \in 1..Len(t) |-> RAdd(RSub(dot_A(t, x, i), y[i]), u[i])]

\* tmp = np.maximum(0, (1 - (1+1/rho)/np.abs(d))), for one element
shrinkage(d) ==
    RMax(RInt(0), RSub(RInt(1), RDiv(Rat(rho + 1, rho), RAbs(d))))

\* x * y for finite x and y, the common factors being taken out before the
\* products are formed
cancelled(x, y, g, h) ==
    Rat((x[1] \div g) * (y[1] \div h), (x[2] \div h) * (y[2] \div g))

RTimes(x, y) == cancelled(x, y, Gcd(Abs(x[1]), y[2]), Gcd(Abs(y[1]), x[2]))

\* z = rho/(1 + rho)*d + 1/(1 + rho)*tmp*d, for one element
soft(d) ==
    RAdd(RMul(Rat(rho, 1 + rho), d),
         RMul(Rat(1, 1 + rho), RTimes(shrinkage(d), d)))

after_z(t, y, x, d, z) ==
    [t |-> t, y |-> y, x |-> x, z |-> z,
     u |-> [i \in 1..Len(d) |-> RSub(d[i], z[i])]]

after_d(t, y, x, d) ==
    after_z(t, y, x, d, [i \in 1..Len(d) |-> soft(d[i])])

after_x(t, y, u, x) == after_d(t, y, x, residual(t, y, u, x))

\* the body of "for k in range(iters)" on the fit f = [t, y, x, z, u]
admm(f) == after_x(f.t, f.y, f.u, solve_x(f.t, f.y, f.z, f.u))

\* the call _robust_fit(X, y) of _clock_sync on the offsets (t, v) of a
\* range, before the loop: y = v / winsor_threshold, z = u = x = 0
fit_of(t, v) ==
    [t |-> t,
     y |-> [i \in 1..Len(v) |-> RDiv(v[i], winsor_threshold)],
     x |-> [i \in 1..Len(v) |-> RInt(0)],
     z |-> [i \in 1..Len(v) |-> RInt(0)],
     u |-> [i \in 1..Len(v) |-> RInt(0)]]

\* offsets collected one second apart that lie on a line
pristine(n) ==
    [clock_times |-> [i \in 1..n |-> RInt(i - 1)],
     clock_values |-> [i \in 1..n |-> Rat(500 + i, 1000)]]

\* offsets of 0 s around one of 1 s
outlier(side) ==
    [clock_times |-> [i \in 1..(2 * side + 1) |-> RInt(i - 1)],
     clock_values |-> [i \in 1..(2 * side + 1) |->
                          IF i = side + 1 THEN RInt(1) ELSE RInt(0)]]

\* offsets collected at the same time
stalled ==
    [clock_times |-> <<RInt(1), RInt(1)>>,
     clock_values |-> <<RInt(0), RInt(1)>>]

\* the ranges whose iterates the integers of the model hold exactly
Segments ==
    {pristine(n) : n \in 2..(2 * MaxSide + 1)}
    \cup {outlier(side) : side \in 1..MaxSide}
    \cup {stalled}

FitInit ==
    /\ pc = "fit"
    /\ temp \in Segments
    /\ pos = 0
    /\ exists = TRUE
    /\ layout = [magic |-> MagicCode, names |-> <<>>, cut |-> 0]
    /\ file = <<>>
    /\ options = <<>>
    /\ fopen = FALSE
    /\ streams = <<>>
    /\ info = <<>>
    /\ fileheader = "None"
    /\ chunk = NoChunk
    /\ scan = NoScan
    /\ has_stamp = <<>>
    /\ err = "none"
    /\ result = "none"

FitIdle ==
    UNCHANGED <<exists, file, layout, options, fopen, streams, info,
                fileheader, chunk, scan, has_stamp>>

\* np.linalg.cholesky raises LinAlgError on a matrix that is not positive
\* definite
Cholesky ==
    /\ pc = "fit"
    /\ IF robust_fit_raises(temp.clock_times)
       THEN /\ pc' = "raised"
            /\ err' = "LinAlgError"
            /\ UNCHANGED temp
       ELSE /\ pc' = "admm"
            /\ temp' = fit_of(temp.clock_times, temp.clock_values)
            /\ UNCHANGED err
    /\ UNCHANGED <<pos, result>>
    /\ FitIdle

AdmmIteration ==
    /\ pc = "admm"
    /\ pos < iters
    /\ temp' = admm(temp)
    /\ pos' = pos + 1
    /\ UNCHANGED <<pc, err, result>>
    /\ FitIdle

FitReturn ==
    /\ pc = "admm"
    /\ pos = iters
    /\ pc' = "fitted"
    /\ result' = temp.x
    /\ UNCHANGED <<temp, pos, err>>
    /\ FitIdle

FitNext == Cholesky \/ AdmmIteration \/ FitReturn

FitSpec == FitInit /\ [][FitNext]_vars


\* the Huber loss of a residual r
huber(r) ==
    IF RLess(RInt(1), RAbs(r)) THEN RSub(RAbs(r), Rat(1, 2))
    ELSE RDiv(RMul(r, r), RInt(2))

\* sum(huber(A x - y)) for the fit f
huber_loss(f, x) ==
    RSum([i \in 1..Len(f.t) |-> huber(RSub(dot_A(f.t, x, i), f.y[i]))])

\* the offset values of the fit f, in seconds
values_of(f) == [i \in 1..Len(f.y) |-> RMul(f.y[i], winsor_threshold)]

\* the line through the first point of f and point i
through(f, i) ==
    line_through(f.t, values_of(f), i, slope_to(f.t, values_of(f), i))

\* no line through the first point and another has a lower loss than x
minimizes(f, x) ==
    \A i \in {k \in 1..Len(f.t) : f.t[k] # f.t[1]} :
        ~RLess(huber_loss(f, through(f, i)), huber_loss(f, x))

\* the ordinary least-squares line of the offset values against the times
ols(f) == lstsq(f.t, values_of(f))

\* every residual of the line x is within winsor_threshold
without_outliers(f, x) ==
    \A i \in 1..Len(f.t) :
        ~RLess(RInt(1), RAbs(RSub(dot_A(f.t, x, i), f.y[i])))

agrees(x, w) ==
    \A j \in 1..2 : ~RLess(Rat(1, 1000000), RAbs(RSub(x[j], w[j])))

\* C22: for a range of more than one clock offset, the pair (a, b) that
\* _robust_fit returns after its 1000 iterations minimizes the Huber loss of
\* the winsor-scaled residuals a + b*t - v, and on a range without outliers
\* it is within 1e-6 of the ordinary least-squares line of v against t
C22_HuberMinimum ==
    pc = "fitted" =>
        /\ minimizes(temp, result)
        /\ without_outliers(temp, ols(temp)) => agrees(result, ols(temp))

\* on a range without outliers every iteration yields the least-squares
\* line, which is the line the points lie on
C22_PristineFit ==
    (pc = "admm" /\ pos > 0 /\ without_outliers(temp, ols(temp))) =>
        /\ temp.x = ols(temp)
        /\ temp.x = robust_fit(temp.t, values_of(temp))
        /\ minimizes(temp, temp.x)

\* the fit of a range with an outlier was returned
C22_OutlierFit ==
    /\ pc = "fitted"
    /\ ~without_outliers(temp, ols(temp))

====
